---- MODULE Spec2Model ----
(***************************************************************************)
(* A model of mcp-linkedin (src/src/mcp_linkedin/client.py): the tools     *)
(* registered with FastMCP, each a synchronous handler that builds a       *)
(* client, calls the upstream LinkedIn client, filters and reshapes what   *)
(* it gets, and returns one string.                                        *)
(*                                                                         *)
(* One invocation is one behaviour.  `tool` and `args` are the call,       *)
(* `env` is what the upstream platform holds, `pc`/`loc` are the handler's *)
(* position and locals, `calls` is the log of remote calls issued so far   *)
(* and `ret` is what the invocation gave back to its caller: a string      *)
(* (kind "text", "json" or "error") or an exception (kind "raise").        *)
(* Every remote call is a step whose outcome (a value or an exception) is  *)
(* the environment's choice.                                               *)
(***************************************************************************)
EXTENDS Integers, Sequences, FiniteSets, TLC

VARIABLES tool, args, env, pc, loc, calls, ret

vars == << tool, args, env, pc, loc, calls, ret >>

(***************************************************************************)
(* Bounds of the model.                                                    *)
(***************************************************************************)
\* the caller's limit ranges over 1..MaxLimit
MaxLimit == 2
\* the longest list the upstream client returns from one call
MaxUpstream == 3
\* the longest list of people a people search returns
MaxHits == 2

(***************************************************************************)
(* Python values.  A str is a sequence of one-character strings; a dict is *)
(* a function whose domain is its set of keys; an argument that is omitted *)
(* (None) is a key absent from `args`.                                     *)
(***************************************************************************)
EmptyDict == << >>

\* dict.get(key, default)
Get(d, k, default) == IF k \in DOMAIN d THEN d[k] ELSE default

\* d[k] = v
Put(d, k, v) == [x \in (DOMAIN d) \cup {k} |-> IF x = k THEN v ELSE d[x]]

UpperCase == << "A", "B", "C", "D", "E", "F", "G", "H", "I", "J", "K", "L", "M",
               "N", "O", "P", "Q", "R", "S", "T", "U", "V", "W", "X", "Y", "Z" >>

LowerCase == << "a", "b", "c", "d", "e", "f", "g", "h", "i", "j", "k", "l", "m",
               "n", "o", "p", "q", "r", "s", "t", "u", "v", "w", "x", "y", "z" >>

\* str.lower() on one character
LowerChar(c) ==
    IF \E i \in 1..Len(UpperCase) : UpperCase[i] = c
    THEN LowerCase[CHOOSE i \in 1..Len(UpperCase) : UpperCase[i] = c]
    ELSE c

\* str.lower()
Lower(s) == [i \in 1..Len(s) |-> LowerChar(s[i])]

\* the Python expression `sub in s` on two strs
StrIn(sub, s) ==
    \E i \in 1..(Len(s) - Len(sub) + 1) : SubSeq(s, i, i + Len(sub) - 1) = sub

\* the Python expression `x in xs` on a list
ListIn(x, xs) == \E i \in 1..Len(xs) : xs[i] = x

\* s.split(":")[-1]
SplitLast(s) ==
    LET colons == {i \in 1..Len(s) : s[i] = ":"}
        last == IF colons = {} THEN 0
                ELSE CHOOSE i \in colons : \A j \in colons : j <= i
    IN SubSeq(s, last + 1, Len(s))

\* xs[:n] for n >= 0
Take(xs, n) == SubSeq(xs, 1, IF n < Len(xs) THEN n ELSE Len(xs))

Min(a, b) == IF a <= b THEN a ELSE b

SeqsUpTo(S, n) == UNION {[1..k -> S] : k \in 0..n}

ToSet(xs) == {xs[i] : i \in 1..Len(xs)}

\* string literals of the source, as strs
Unknown == << "U", "n", "k", "n", "o", "w", "n" >>

NoDescription == << "N", "o", " ", "d", "e", "s", "c", "r", "i", "p", "t", "i", "o", "n",
                   " ", "a", "v", "a", "i", "l", "a", "b", "l", "e" >>

\* f"https://www.linkedin.com/company/{company_id}"
CompanyUrl(company_id) == << "https://www.linkedin.com/company/" >> \o company_id

\* f"https://www.linkedin.com/in/{profile_id}"
ProfileUrl(profile_id) == << "https://www.linkedin.com/in/" >> \o profile_id

\* bool(x) of a str, list or dict
Truthy(x) == x # << >>

\* an optional argument was given and is not empty: `if arg:`
Given(k) == k \in DOMAIN args /\ Truthy(args[k])

\* the optional str arguments of a call: each omitted, empty or given
OptArgs(keys, values) ==
    UNION {[ks -> values \cup {<< >>}] : ks \in SUBSET keys}

\* two dicts as one, the second's entries winning
Merge(d, e) == [x \in (DOMAIN d) \cup (DOMAIN e) |-> IF x \in DOMAIN e THEN e[x] ELSE d[x]]

\* search_params[key] = args[arg] when the argument is given and not empty
PutGiven(d, key, arg) == IF Given(arg) THEN Put(d, key, args[arg]) ELSE d

(***************************************************************************)
(* What an invocation gives back.                                          *)
(***************************************************************************)
NoRet == [kind |-> "none"]
\* an exception that leaves the handler
Raised == [kind |-> "raise"]
\* f"{prefix}{e}"
ErrorStr(prefix) == [kind |-> "error", text |-> prefix]
\* json.dumps(value, indent=2)
JsonStr(value) == [kind |-> "json", value |-> value]
\* a string built by concatenating blocks
TextStr(blocks) == [kind |-> "text", blocks |-> blocks]

\* the returned string begins with "Error"
BeginsWithError(r) ==
    r.kind = "error" /\ r.text \in
        {"Error: ", "Error searching companies: ", "Error getting company details: ",
         "Error searching people: ", "Error getting profile details: ",
         "Error searching company employees: ", "Error: Could not find company name",
         "Error searching people by skills: ", "Error getting company updates: ",
         "Error finding decision makers: ", "Error generating lead recommendations: ",
         "Error identifying target accounts: ", "Error analyzing prospect profile: ",
         "Error finding companies using technologies: ",
         "Error finding common connections: ", "Error finding recent job changes: ",
         "Error generating sales outreach context: "}

\* one entry of the call log: the operation, its keyword arguments, and whether
\* it returned (ok) or raised
Call(op, params, ok) == [op |-> op, params |-> params, ok |-> ok]

\* some call of the invocation raised
SomeCallRaised == \E i \in 1..Len(calls) : ~ calls[i].ok

Done == pc = "done"

\* get_client returned a client
ClientBuilt == Len(calls) >= 1 /\ calls[1].op = "get_client" /\ calls[1].ok

\* the positions in the call log of the calls of `op`
CallsOf(op) == {i \in 1..Len(calls) : calls[i].op = op}

(***************************************************************************)
(* get_client: every tool's first statement, outside the tool's guard.     *)
(***************************************************************************)
\* a client constructed a second time within the invocation
GetClientTwice ==
    /\ pc = "start"
    /\ \E ok \in BOOLEAN :
          /\ calls' = calls \o << Call("get_client", EmptyDict, TRUE),
                                  Call("get_client", EmptyDict, ok) >>
          /\ pc' = IF ok THEN "body" ELSE "done"
          /\ ret' = IF ok THEN ret ELSE Raised
    /\ UNCHANGED << tool, args, env, loc >>

\* lines 11-12, called as the first statement of every tool
GetClient ==
    /\ pc = "start"
    /\ \E ok \in BOOLEAN :
          /\ calls' = Append(calls, Call("get_client", EmptyDict, ok))
          /\ pc' = IF ok THEN "body" ELSE "done"
          /\ ret' = IF ok THEN ret ELSE Raised
    /\ UNCHANGED << tool, args, env, loc >>

(***************************************************************************)
(* get_feed_posts                                                          *)
(***************************************************************************)
FeedPosts ==
    { [author_name |-> <<"a">>, content |-> <<"b">>],
      [content |-> <<"b">>],
      [author_name |-> <<"b">>] }

\* the loop that formats the posts: urn['author_name'] and urn['content']
FeedText(post_urns) ==
    IF \E i \in 1..Len(post_urns) :
          ~ ({"author_name", "content"} \subseteq DOMAIN post_urns[i])
    THEN Raised
    ELSE TextStr([i \in 1..Len(post_urns) |->
                    << "Post by ", post_urns[i].author_name, ": ",
                       post_urns[i].content, "\n" >>])

GetFeedPosts ==
    /\ tool = "get_feed_posts" /\ pc = "body"
    /\ \E ok \in BOOLEAN :
          /\ calls' = Append(calls, Call("get_feed_posts",
                          [limit |-> args.limit, offset |-> args.offset], ok))
          /\ ret' = IF ok THEN FeedText(env.posts) ELSE ErrorStr("Error: ")
    /\ pc' = "done"
    /\ UNCHANGED << tool, args, env, loc >>

InitGetFeedPosts ==
    /\ tool = "get_feed_posts"
    /\ args \in [limit : 1..MaxLimit, offset : {0}]
    /\ env \in [posts : SeqsUpTo(FeedPosts, MaxUpstream)]
    /\ pc = "start" /\ loc = EmptyDict /\ calls = << >> /\ ret = NoRet

(***************************************************************************)
(* search_jobs                                                             *)
(***************************************************************************)
JobHits ==
    { [entityUrn |-> <<"u", ":", "1">>],
      [entityUrn |-> <<"u", ":", "2">>],
      [title |-> <<"a">>] }

WebCompany == "com.linkedin.voyager.deco.jobs.web.shared.WebCompactJobPostingCompany"

CompanyDetails(info) == [x \in {WebCompany} |-> [companyResolutionResult |-> info]]

JobDatas ==
    { [title |-> <<"a">>,
       companyDetails |-> CompanyDetails([name |-> <<"b">>,
                                          entityUrn |-> <<"c", ":", "7">>]),
       description |-> [text |-> <<"a", "b">>],
       formattedLocation |-> <<"c">>],
      [title |-> <<"b">>,
       companyDetails |-> CompanyDetails([entityUrn |-> <<"c", ":", "8">>]),
       description |-> [text |-> <<"a">>],
       formattedLocation |-> <<"c">>],
      [companyDetails |-> CompanyDetails([name |-> <<"c">>]),
       description |-> [text |-> <<"b">>]] }

\* the subscripts of lines 56-59 all find their keys
JobDataComplete(job_data) ==
    /\ {"title", "companyDetails", "description", "formattedLocation"}
          \subseteq DOMAIN job_data
    /\ WebCompany \in DOMAIN job_data.companyDetails
    /\ "companyResolutionResult" \in DOMAIN job_data.companyDetails[WebCompany]
    /\ "name" \in DOMAIN job_data.companyDetails[WebCompany].companyResolutionResult
    /\ "text" \in DOMAIN job_data.description

JobBlock(job_data) ==
    << "Job by ", job_data.title, " at ",
       job_data.companyDetails[WebCompany].companyResolutionResult.name,
       " in ", job_data.formattedLocation, ": ", job_data.description.text, "\n\n" >>

SearchJobsSearch ==
    /\ tool = "search_jobs" /\ pc = "body"
    /\ \E ok \in BOOLEAN :
          /\ calls' = Append(calls, Call("search_jobs",
                          [keywords |-> args.keywords, location_name |-> args.location,
                           limit |-> args.limit, offset |-> args.offset], ok))
          /\ IF ok
             THEN /\ loc' = [jobs |-> env.jobs, i |-> 1, job_results |-> << >>]
                  /\ pc' = "jobs"
                  /\ ret' = ret
             ELSE /\ loc' = loc
                  /\ pc' = "done"
                  /\ ret' = Raised
    /\ UNCHANGED << tool, args, env >>

\* one iteration of `for job in jobs`
SearchJobsJob ==
    /\ tool = "search_jobs" /\ pc = "jobs" /\ loc.i <= Len(loc.jobs)
    /\ LET job == loc.jobs[loc.i] IN
       IF "entityUrn" \notin DOMAIN job
       THEN /\ ret' = Raised /\ pc' = "done"
            /\ UNCHANGED << loc, calls >>
       ELSE \E ok \in BOOLEAN, job_data \in JobDatas :
               /\ calls' = Append(calls, Call("get_job",
                               [job_id |-> SplitLast(job.entityUrn)], ok))
               /\ IF ok /\ JobDataComplete(job_data)
                  THEN /\ loc' = [loc EXCEPT !.i = @ + 1,
                                    !.job_results = Append(@, JobBlock(job_data))]
                       /\ UNCHANGED << pc, ret >>
                  ELSE /\ ret' = Raised /\ pc' = "done" /\ loc' = loc
    /\ UNCHANGED << tool, args, env >>

SearchJobsReturn ==
    /\ tool = "search_jobs" /\ pc = "jobs" /\ loc.i > Len(loc.jobs)
    /\ ret' = TextStr(loc.job_results)
    /\ pc' = "done"
    /\ UNCHANGED << tool, args, env, loc, calls >>

InitSearchJobs ==
    /\ tool = "search_jobs"
    /\ args \in [keywords : {<<"a">>}, limit : 1..MaxLimit, offset : {0},
                 location : {<< >>, <<"b">>}]
    /\ env \in [jobs : SeqsUpTo(JobHits, MaxUpstream)]
    /\ pc = "start" /\ loc = EmptyDict /\ calls = << >> /\ ret = NoRet

InitJobs == InitGetFeedPosts \/ InitSearchJobs

NextJobs ==
    \/ GetClient
    \/ GetFeedPosts
    \/ SearchJobsSearch
    \/ SearchJobsJob
    \/ SearchJobsReturn

SpecJobs == InitJobs /\ [][NextJobs]_vars

\* C1: in every tool, when the client construction or a remote call of the
\* invocation raises, the invocation does not raise to its caller: it returns a
\* string that begins with "Error".
C1_RaiseBecomesErrorString ==
    (Done /\ SomeCallRaised) => BeginsWithError(ret)

\* C3: search_jobs with limit n, once its client is built, returns at most n
\* "Job by ..." blocks when the upstream calls succeed and every job record is
\* complete, and otherwise (the search or a detail fetch fails, or a record
\* lacks an expected field) one string that starts with "Error: ".
C3_SearchJobsBlocksOrError ==
    (tool = "search_jobs" /\ Done /\ ClientBuilt) =>
        \/ ret.kind = "text" /\ Len(ret.blocks) <= args.limit /\ ~ SomeCallRaised
        \/ ret = ErrorStr("Error: ")

(***************************************************************************)
(* search_companies                                                        *)
(***************************************************************************)
\* company records the upstream search returns
Companies ==
    { [entityUrn |-> <<"u", ":", "1">>, name |-> <<"a", "b">>,
       industries |-> << <<"a">> >>, headquarter |-> [country |-> <<"b">>],
       description |-> <<"a", "B">>, staffCount |-> 10],
      [entityUrn |-> <<"u", ":", "2">>, name |-> <<"b">>,
       industries |-> << >>, headquarter |-> [city |-> <<"c">>],
       staffCount |-> 100],
      [name |-> <<"c">>, description |-> <<"b">>] }

\* company.get("industries", ["Unknown"])[0] if company.get("industries") else "Unknown"
CompanyIndustry(company) ==
    IF Truthy(Get(company, "industries", << >>))
    THEN company.industries[1]
    ELSE Unknown

\* company.get("headquarter", {}).get("country", "Unknown")
\*     if company.get("headquarter") else "Unknown"
CompanyLocation(company) ==
    IF Truthy(Get(company, "headquarter", EmptyDict))
    THEN Get(company.headquarter, "country", Unknown)
    ELSE Unknown

\* company.get("entityUrn", "").split(":")[-1]
CompanyId(company) == SplitLast(Get(company, "entityUrn", << >>))

\* the record search_companies appends for one company
CompanyResult(company) ==
    [id |-> CompanyId(company),
     name |-> Get(company, "name", Unknown),
     industry |-> CompanyIndustry(company),
     location |-> CompanyLocation(company),
     description |-> Get(company, "description", NoDescription),
     size |-> Get(company, "staffCount", Unknown),
     url |-> CompanyUrl(CompanyId(company))]

\* the parameters search_companies sends upstream
SearchCompaniesParams ==
    LET p0 == [keywords |-> args.keywords]
        p1 == IF Given("industry") THEN Put(p0, "industry", args.industry) ELSE p0
        p2 == IF Given("location") THEN Put(p1, "location", args.location) ELSE p1
    IN Put(p2, "limit", args.limit)

SearchCompanies ==
    /\ tool = "search_companies" /\ pc = "body"
    /\ \E ok \in BOOLEAN :
          /\ calls' = Append(calls, Call("search_companies", SearchCompaniesParams, ok))
          /\ ret' = IF ok
                    THEN JsonStr([i \in 1..Len(env.companies) |->
                                    CompanyResult(env.companies[i])])
                    ELSE ErrorStr("Error searching companies: ")
    /\ pc' = "done"
    /\ UNCHANGED << tool, args, env, loc >>

InitSearchCompanies ==
    /\ tool = "search_companies"
    /\ \E req \in [keywords : {<<"a">>}, limit : 1..MaxLimit],
          opt \in OptArgs({"industry", "location"}, {<<"b">>}) :
          args = Merge(req, opt)
    /\ env \in [companies : SeqsUpTo(Companies, MaxUpstream)]
    /\ pc = "start" /\ loc = EmptyDict /\ calls = << >> /\ ret = NoRet

InitCompanies == InitSearchCompanies

NextCompanies ==
    \/ GetClient
    \/ SearchCompanies

SpecCompanies == InitCompanies /\ [][NextCompanies]_vars

\* the tools that take a limit and return a list of records
ListTools ==
    {"search_companies", "search_people", "search_company_employees",
     "search_people_by_skills", "get_company_updates", "find_decision_makers",
     "generate_lead_recommendations", "identify_target_accounts",
     "find_companies_using_technologies", "find_recent_job_changes"}

\* C2: a tool that takes a limit and returns a list of records never returns
\* more records than the caller's limit, whatever the upstream client returns.
C2_AtMostLimitRecords ==
    (Done /\ tool \in ListTools /\ ret.kind = "json") =>
        Len(ret.value) <= args.limit

(***************************************************************************)
(* search_people                                                           *)
(***************************************************************************)
\* people records the upstream people search returns
Persons ==
    { [public_id |-> <<"p">>, firstName |-> <<"a">>, lastName |-> <<"b">>,
       occupation |-> <<"C", "T", "O">>, locationName |-> <<"c">>,
       experience |-> << [companyName |-> <<"a", "b">>, title |-> <<"c">>] >>],
      [public_id |-> <<"q">>, firstName |-> <<"b">>,
       experience |-> << [title |-> <<"c">>] >>],
      [public_id |-> <<"r">>, lastName |-> <<"c">>] }

\* skill lists that get_profile_skills returns
SkillLists ==
    { << >>,
      << [name |-> <<"A">>] >>,
      << [name |-> <<"a", "b">>], [endorsements |-> 1] >> }

\* f"{person.get('firstName', '')} {person.get('lastName', '')}"
FullName(person) ==
    Get(person, "firstName", << >>) \o <<" ">> \o Get(person, "lastName", << >>)

\* lines 230-233: the company of the first experience entry, "" without one
PersonCompany(person) ==
    IF Truthy(Get(person, "experience", << >>)) /\ Len(person.experience) > 0
    THEN Get(person.experience[1], "companyName", << >>)
    ELSE << >>

\* the record search_people appends for one person
PersonResult(person) ==
    [id |-> Get(person, "public_id", << >>),
     name |-> FullName(person),
     title |-> Get(person, "occupation", << >>),
     company |-> PersonCompany(person),
     location |-> Get(person, "locationName", << >>),
     url |-> ProfileUrl(Get(person, "public_id", << >>))]

\* any(skill.lower() in s.get("name", "").lower() for s in profile_skills)
HasSkill(skill, profile_skills) ==
    \E i \in 1..Len(profile_skills) :
        StrIn(Lower(skill), Lower(Get(profile_skills[i], "name", << >>)))

\* the parameters search_people sends upstream
SearchPeopleParams ==
    LET p1 == PutGiven(EmptyDict, "keywords", "keywords")
        p2 == PutGiven(p1, "title", "title")
        p3 == PutGiven(p2, "company_name", "company")
        p4 == PutGiven(p3, "school_name", "school")
        p5 == PutGiven(p4, "industry", "industry")
        p6 == PutGiven(p5, "location_name", "location")
    IN Put(p6, "limit", args.limit)

\* lines 221-242: the records of the people formatted
PersonResults(people) == [i \in 1..Len(people) |-> PersonResult(people[i])]

\* the search, and the formatting when no skill filter applies
SearchPeopleSearch ==
    /\ tool = "search_people" /\ pc = "body"
    /\ \E ok \in BOOLEAN :
          /\ calls' = Append(calls, Call("search_people", SearchPeopleParams, ok))
          /\ IF ~ ok
             THEN /\ ret' = ErrorStr("Error searching people: ")
                  /\ pc' = "done" /\ loc' = loc
             ELSE IF Given("skill") /\ Truthy(env.people)
                  THEN /\ loc' = [people |-> env.people, i |-> 1, filtered_people |-> << >>]
                       /\ pc' = "filter" /\ ret' = ret
                  ELSE /\ ret' = JsonStr(PersonResults(env.people))
                       /\ pc' = "done" /\ loc' = loc
    /\ UNCHANGED << tool, args, env >>

\* one iteration of the skill filter: the skills lookup of one search hit
SearchPeopleSkill ==
    /\ tool = "search_people" /\ pc = "filter" /\ loc.i <= Len(loc.people)
    /\ LET person == loc.people[loc.i] IN
       \E ok \in BOOLEAN, profile_skills \in SkillLists :
          /\ calls' = Append(calls, Call("get_profile_skills",
                          [public_id |-> Get(person, "public_id", << >>)], ok))
          /\ IF ok
             THEN /\ loc' = [loc EXCEPT !.i = @ + 1,
                               !.filtered_people =
                                   IF HasSkill(args.skill, profile_skills)
                                   THEN Append(@, person) ELSE @]
                  /\ UNCHANGED << pc, ret >>
             ELSE /\ ret' = ErrorStr("Error searching people: ")
                  /\ pc' = "done" /\ loc' = loc
    /\ UNCHANGED << tool, args, env >>

SearchPeopleReturn ==
    /\ tool = "search_people" /\ pc = "filter" /\ loc.i > Len(loc.people)
    /\ ret' = JsonStr(PersonResults(Take(loc.filtered_people, args.limit)))
    /\ pc' = "done"
    /\ UNCHANGED << tool, args, env, loc, calls >>

InitSearchPeople ==
    /\ tool = "search_people"
    /\ \E req \in [limit : 1..MaxLimit],
          opt \in OptArgs({"keywords", "title"}, {<<"b">>}),
          skill \in OptArgs({"skill"}, {<<"a">>, <<"A">>, <<"b">>}) :
          args = Merge(Merge(req, opt), skill)
    /\ env \in [people : SeqsUpTo(Persons, MaxHits)]
    /\ pc = "start" /\ loc = EmptyDict /\ calls = << >> /\ ret = NoRet

(***************************************************************************)
(* search_people_by_skills                                                 *)
(***************************************************************************)
\* the parameters search_people_by_skills sends upstream
BySkillsParams ==
    LET p1 == PutGiven(EmptyDict, "title", "title")
        p2 == PutGiven(p1, "industry", "industry")
        p3 == PutGiven(p2, "location_name", "location")
        p4 == IF Truthy(args.skills) /\ Len(args.skills) > 0
              THEN Put(p3, "keywords", args.skills[1]) ELSE p3
    IN Put(p4, "limit", args.limit * 2)

\* a filter that one requested skill satisfies
HasAnySkill(skills, profile_skills) ==
    \E k \in 1..Len(skills) :
        \E i \in 1..Len(profile_skills) :
            StrIn(Lower(skills[k]), Lower(Get(profile_skills[i], "name", << >>)))

\* all(any(skill.lower() in skill_name for skill_name in profile_skill_names)
\*     for skill in skills)
HasAllSkills(skills, profile_skills) ==
    \A k \in 1..Len(skills) :
        \E i \in 1..Len(profile_skills) :
            StrIn(Lower(skills[k]), Lower(Get(profile_skills[i], "name", << >>)))

\* lines 439-443: the names of the profile's skills that contain a requested skill
RECURSIVE MatchedFrom(_, _, _, _)
MatchedFrom(skills, person_skills, i, matched_skills) ==
    IF i > Len(person_skills)
    THEN matched_skills
    ELSE LET skill_name == Get(person_skills[i], "name", << >>) IN
         MatchedFrom(skills, person_skills, i + 1,
            IF \E k \in 1..Len(skills) : StrIn(Lower(skills[k]), Lower(skill_name))
            THEN Append(matched_skills, skill_name)
            ELSE matched_skills)

MatchedSkills(skills, person_skills) == MatchedFrom(skills, person_skills, 1, << >>)

\* the record search_people_by_skills appends for one person
BySkillsResult(person, person_skills) ==
    [id |-> Get(person, "public_id", << >>),
     name |-> FullName(person),
     title |-> Get(person, "occupation", << >>),
     company |-> PersonCompany(person),
     location |-> Get(person, "locationName", << >>),
     matched_skills |-> MatchedSkills(args.skills, person_skills),
     url |-> ProfileUrl(Get(person, "public_id", << >>))]

BySkillsSearch ==
    /\ tool = "search_people_by_skills" /\ pc = "body"
    /\ \E ok \in BOOLEAN :
          /\ calls' = Append(calls, Call("search_people", BySkillsParams, ok))
          /\ IF ok
             THEN /\ loc' = [people |-> env.people, i |-> 1, filtered_people |-> << >>,
                             j |-> 1, results |-> << >>,
                             profile_skills |-> << >>, person_skills |-> << >>]
                  /\ pc' = IF Len(env.people) = 0 THEN "format" ELSE "filter"
                  /\ ret' = ret
             ELSE /\ ret' = ErrorStr("Error searching people by skills: ")
                  /\ pc' = "done" /\ loc' = loc
    /\ UNCHANGED << tool, args, env >>

\* one iteration of the first loop: the skills lookup of one search hit;
\* loc.profile_skills keeps the skill list fetched for each person that passed
BySkillsFilter ==
    /\ tool = "search_people_by_skills" /\ pc = "filter"
    /\ LET person == loc.people[loc.i] IN
       \E ok \in BOOLEAN, profile_skills \in SkillLists :
          /\ calls' = Append(calls, Call("get_profile_skills",
                          [public_id |-> Get(person, "public_id", << >>)], ok))
          /\ IF ok
             THEN LET filtered == IF HasAllSkills(args.skills, profile_skills)
                                  THEN Append(loc.filtered_people, person)
                                  ELSE loc.filtered_people
                      enough == HasAllSkills(args.skills, profile_skills)
                                /\ Len(filtered) >= args.limit
                  IN /\ loc' = [loc EXCEPT !.i = @ + 1, !.filtered_people = filtered,
                                    !.profile_skills =
                                        IF HasAllSkills(args.skills, profile_skills)
                                        THEN Append(@, profile_skills) ELSE @]
                     /\ pc' = IF enough \/ loc.i = Len(loc.people)
                              THEN "format" ELSE "filter"
                     /\ ret' = ret
             ELSE /\ ret' = ErrorStr("Error searching people by skills: ")
                  /\ pc' = "done" /\ loc' = loc
    /\ UNCHANGED << tool, args, env >>

\* one iteration of the second loop: the record of one person, with a second
\* skills lookup; loc.person_skills keeps the skill list fetched for each record
BySkillsFormat ==
    /\ tool = "search_people_by_skills" /\ pc = "format"
    /\ loc.j <= Len(Take(loc.filtered_people, args.limit))
    /\ LET person == loc.filtered_people[loc.j] IN
       \E ok \in BOOLEAN, person_skills \in SkillLists :
          /\ calls' = Append(calls, Call("get_profile_skills",
                          [public_id |-> Get(person, "public_id", << >>)], ok))
          /\ IF ok
             THEN /\ loc' = [loc EXCEPT !.j = @ + 1,
                               !.results = Append(@, BySkillsResult(person, person_skills)),
                               !.person_skills = Append(@, person_skills)]
                  /\ UNCHANGED << pc, ret >>
             ELSE /\ ret' = ErrorStr("Error searching people by skills: ")
                  /\ pc' = "done" /\ loc' = loc
    /\ UNCHANGED << tool, args, env >>

BySkillsReturn ==
    /\ tool = "search_people_by_skills" /\ pc = "format"
    /\ loc.j > Len(Take(loc.filtered_people, args.limit))
    /\ ret' = JsonStr(loc.results)
    /\ pc' = "done"
    /\ UNCHANGED << tool, args, env, loc, calls >>

InitSearchPeopleBySkills ==
    /\ tool = "search_people_by_skills"
    /\ \E req \in [limit : 1..MaxLimit,
                   skills : {<< >>, << <<"a">> >>, << <<"A">> >>, << <<"a">>, <<"b">> >>}],
          opt \in OptArgs({"title"}, {<<"b">>}) :
          args = Merge(req, opt)
    /\ env \in [people : SeqsUpTo(Persons, MaxHits)]
    /\ pc = "start" /\ loc = EmptyDict /\ calls = << >> /\ ret = NoRet

InitPeople == InitSearchPeople \/ InitSearchPeopleBySkills

NextPeople ==
    \/ GetClient
    \/ SearchPeopleSearch
    \/ SearchPeopleSkill
    \/ SearchPeopleReturn
    \/ BySkillsSearch
    \/ BySkillsFilter
    \/ BySkillsFormat
    \/ BySkillsReturn

SpecPeople == InitPeople /\ [][NextPeople]_vars

\* the per-candidate lookups of the invocation that raised
FailedLookups ==
    {i \in 1..Len(calls) :
        /\ ~ calls[i].ok
        /\ calls[i].op \in {"get_profile_skills", "get_profile", "get_job"}}

\* C4: a failure of the per-candidate lookup (here get_profile_skills for one
\* search hit) skips only that candidate: the tool still returns a JSON list,
\* not an error string.
C4_LookupFailureSkipsCandidate ==
    (Done /\ ClientBuilt /\ FailedLookups # {}
          /\ \A i \in 1..Len(calls) : i \notin FailedLookups => calls[i].ok)
        => ret.kind = "json"

(***************************************************************************)
(* analyze_prospect_profile                                                *)
(***************************************************************************)
\* the default service keywords (lines 885-889)
DefaultServiceKeywords ==
    << << "c", "l", "o", "u", "d" >>,
       << "m", "i", "g", "r", "a", "t", "i", "o", "n" >>,
       << "d", "i", "g", "i", "t", "a", "l", " ", "t", "r", "a", "n", "s", "f", "o", "r", "m", "a", "t", "i", "o", "n" >>,
       << "i", "n", "f", "r", "a", "s", "t", "r", "u", "c", "t", "u", "r", "e" >>,
       << "s", "e", "c", "u", "r", "i", "t", "y" >>,
       << "a", "u", "t", "o", "m", "a", "t", "i", "o", "n" >>,
       << "d", "e", "v", "o", "p", "s" >>,
       << "a", "i" >>,
       << "m", "a", "c", "h", "i", "n", "e", " ", "l", "e", "a", "r", "n", "i", "n", "g" >>,
       << "d", "a", "t", "a", " ", "a", "n", "a", "l", "y", "t", "i", "c", "s" >>,
       << "i", "n", "t", "e", "g", "r", "a", "t", "i", "o", "n" >>,
       << "e", "r", "p" >>,
       << "c", "r", "m" >>,
       << "s", "o", "f", "t", "w", "a", "r", "e", " ", "d", "e", "v", "e", "l", "o", "p", "m", "e", "n", "t" >>,
       << "c", "o", "n", "s", "u", "l", "t", "i", "n", "g" >>,
       << "i", "t", " ", "s", "e", "r", "v", "i", "c", "e", "s" >> >>

\* decision_maker_titles (line 917)
DecisionMakerTitles ==
    << << "c", "t", "o" >>,
       << "c", "i", "o" >>,
       << "v", "p" >>,
       << "d", "i", "r", "e", "c", "t", "o", "r" >>,
       << "c", "h", "i", "e", "f" >>,
       << "h", "e", "a", "d" >>,
       << "l", "e", "a", "d" >>,
       << "s", "e", "n", "i", "o", "r" >>,
       << "m", "a", "n", "a", "g", "e", "r" >> >>

HeadlineTwo == << "a", "i", " ", "e", "r", "p" >>

HeadlineFour == << "a", "i", " ", "e", "r", "p", " ", "c", "r", "m", " ", "c", "l", "o", "u", "d" >>

HeadlineSix == << "A", "I", " ", "E", "R", "P", " ", "c", "r", "m", " ", "c", "l", "o", "u", "d", " ", "d", "e", "v", "o", "p", "s", " ", "s", "e", "c", "u", "r", "i", "t", "y" >>

\* points of the opportunity score
DecisionMakerPoints == 30
PointsPerServiceHit == 5
ServicePointsCap == 50
HighThreshold == 70
MediumThreshold == 40
\* weights of a keyword hit
HeadlineWeight == 2
OtherWeight == 1
\* skill_list[:10]
TopSkills == 10

\* exp.get("timePeriod", {}).get("endDate") is None
OpenEnded(exp) == "endDate" \notin DOMAIN Get(exp, "timePeriod", EmptyDict)

\* lines 896-904: the company and title of the last experience entry with no
\* end date, "" and "" without one
RECURSIVE CurrentJobFrom(_, _, _)
CurrentJobFrom(experience, i, cur) ==
    IF i > Len(experience)
    THEN cur
    ELSE CurrentJobFrom(experience, i + 1,
            IF OpenEnded(experience[i])
            THEN [company |-> Get(experience[i], "companyName", << >>),
                  title |-> Get(experience[i], "title", << >>)]
            ELSE cur)

\* a current job that defaults to the placeholder other fields use
CurrentJobUnknown(profile) ==
    CurrentJobFrom(Get(profile, "experience", << >>), 1,
                   [company |-> Unknown, title |-> Unknown])

CurrentJob(profile) ==
    CurrentJobFrom(Get(profile, "experience", << >>), 1,
                   [company |-> << >>, title |-> << >>])

\* a count that compares the title as it is spelled
DecisionMakerScoreSpelled(current_title) ==
    Cardinality({i \in 1..Len(DecisionMakerTitles) :
                    StrIn(DecisionMakerTitles[i], current_title)})

\* lines 916-921
DecisionMakerScore(current_title) ==
    Cardinality({i \in 1..Len(DecisionMakerTitles) :
                    StrIn(DecisionMakerTitles[i], Lower(current_title))})

\* service_keywords, or the defaults when the argument is missing or empty
ServiceKeywords ==
    IF Given("service_keywords") THEN args.service_keywords ELSE DefaultServiceKeywords

\* lines 930-933: the headline scan; st is [mentions, score]
RECURSIVE ScanHeadline(_, _, _, _)
ScanHeadline(headline, keywords, k, st) ==
    IF k > Len(keywords)
    THEN st
    ELSE IF Truthy(headline) /\ StrIn(Lower(keywords[k]), Lower(headline))
         THEN ScanHeadline(headline, keywords, k + 1,
                  [mentions |-> Append(st.mentions, keywords[k]),
                   score |-> st.score + HeadlineWeight])
         ELSE ScanHeadline(headline, keywords, k + 1, st)

\* the inner loop of lines 938-941 and 945-948: the keywords against one text;
\* a keyword already in service_mentions, spelled the same, is not counted
\* again (the two tests of line 939 have no effect of their own, so their
\* conjunction is written with the list test first)
RECURSIVE ScanText(_, _, _, _)
ScanText(text, keywords, k, st) ==
    IF k > Len(keywords)
    THEN st
    ELSE IF ~ ListIn(keywords[k], st.mentions) /\ StrIn(Lower(keywords[k]), Lower(text))
         THEN ScanText(text, keywords, k + 1,
                  [mentions |-> Append(st.mentions, keywords[k]),
                   score |-> st.score + OtherWeight])
         ELSE ScanText(text, keywords, k + 1, st)

\* the outer loop of lines 936-941 and 944-948
RECURSIVE ScanTexts(_, _, _, _)
ScanTexts(texts, keywords, i, st) ==
    IF i > Len(texts)
    THEN st
    ELSE ScanTexts(texts, keywords, i + 1, ScanText(texts[i], keywords, 1, st))

\* lines 925-948: service_mentions and service_score
ServiceInterest(headline, descriptions, skill_list, keywords) ==
    ScanTexts(skill_list, keywords, 1,
        ScanTexts(descriptions, keywords, 1,
            ScanHeadline(headline, keywords, 1, [mentions |-> << >>, score |-> 0])))

\* service points that grow with every hit
ServicePointsUncapped(service_score) == service_score * PointsPerServiceHit

\* line 958: min(service_score * 5, 50)
ServicePoints(service_score) == Min(service_score * PointsPerServiceHit, ServicePointsCap)

\* a score that also depends on how much of the invocation has run
OpportunityScoreStateful(is_decision_maker, service_score) ==
    (IF is_decision_maker THEN DecisionMakerPoints ELSE 0)
        + Min(service_score * PointsPerServiceHit, ServicePointsCap)
        + Len(calls)

\* lines 950-958
OpportunityScore(is_decision_maker, service_score) ==
    (IF is_decision_maker THEN DecisionMakerPoints ELSE 0) + ServicePoints(service_score)

\* a bucketing whose thresholds are exclusive
OpportunityLevelExclusive(opportunity_score) ==
    IF opportunity_score > 70 THEN "High"
    ELSE IF opportunity_score > 40 THEN "Medium"
    ELSE "Low"

\* lines 964-969
OpportunityLevel(opportunity_score) ==
    IF opportunity_score >= HighThreshold THEN "High"
    ELSE IF opportunity_score >= MediumThreshold THEN "Medium"
    ELSE "Low"

\* [skill.get("name", "") for skill in skills]
SkillNames(skills) == [i \in 1..Len(skills) |-> Get(skills[i], "name", << >>)]

\* [exp.get("description", "") for exp in profile.get("experience", [])]
Descriptions(profile) ==
    LET experience == Get(profile, "experience", << >>)
    IN [i \in 1..Len(experience) |-> Get(experience[i], "description", << >>)]

\* lines 877-986: the analysis of a fetched profile and its skills
Analysis(profile_id, profile, skills, keywords) ==
    LET headline == Get(profile, "headline", << >>)
        current == CurrentJob(profile)
        is_decision_maker == DecisionMakerScore(current.title) > 0
        service == ServiceInterest(headline, Descriptions(profile),
                                   SkillNames(skills), keywords)
        opportunity_score == OpportunityScore(is_decision_maker, service.score)
    IN [name |-> FullName(profile),
        headline |-> headline,
        current_title |-> current.title,
        current_company |-> current.company,
        location |-> Get(profile, "locationName", << >>),
        industry |-> Get(profile, "industryName", << >>),
        is_decision_maker |-> is_decision_maker,
        service_interests |-> service.mentions,
        service_score |-> service.score,
        opportunity_score |-> opportunity_score,
        opportunity_level |-> OpportunityLevel(opportunity_score),
        profile_url |-> ProfileUrl(profile_id),
        skills |-> Take(SkillNames(skills), TopSkills)]

AnalyzeGetProfile ==
    /\ tool = "analyze_prospect_profile" /\ pc = "body"
    /\ \E ok \in BOOLEAN :
          /\ calls' = Append(calls, Call("get_profile",
                          [public_id |-> args.profile_id], ok))
          /\ pc' = IF ok THEN "skills" ELSE "done"
          /\ ret' = IF ok THEN ret ELSE ErrorStr("Error analyzing prospect profile: ")
          /\ loc' = IF ok THEN [profile |-> env.profile] ELSE loc
    /\ UNCHANGED << tool, args, env >>

AnalyzeGetSkills ==
    /\ tool = "analyze_prospect_profile" /\ pc = "skills"
    /\ \E ok \in BOOLEAN :
          /\ calls' = Append(calls, Call("get_profile_skills",
                          [public_id |-> args.profile_id], ok))
          /\ ret' = IF ok
                    THEN JsonStr(Analysis(args.profile_id, loc.profile, env.skills,
                                          ServiceKeywords))
                    ELSE ErrorStr("Error analyzing prospect profile: ")
    /\ pc' = "done"
    /\ UNCHANGED << tool, args, env, loc >>

\* experience entries of a fetched profile
ExpCurrent ==
    [companyName |-> <<"a", "b">>, title |-> <<"C", "T", "O">>, description |-> <<"a">>,
     timePeriod |-> [startDate |-> [year |-> 2024]]]

ExpPast ==
    [companyName |-> <<"c">>, title |-> <<"c">>, description |-> <<"B", " ", "a">>,
     timePeriod |-> [startDate |-> [year |-> 2019], endDate |-> [year |-> 2023]]]

ExpBare == [title |-> <<"d", "e", "v">>]

\* the experience of a fetched profile: the key missing, or a list of entries
ExperienceOptions ==
    {EmptyDict} \cup
    {[experience |-> e] : e \in {<< >>, <<ExpCurrent>>, <<ExpPast>>, <<ExpBare>>,
                                 <<ExpCurrent, ExpPast>>, <<ExpCurrent, ExpBare>>}}

\* the headline of a fetched profile: the key missing, or a str
HeadlineOptions ==
    {EmptyDict} \cup
    {[headline |-> h] : h \in {<<"a">>, HeadlineTwo, HeadlineFour, HeadlineSix}}

\* profiles that get_profile returns
Profiles ==
    {Merge([firstName |-> <<"a">>], Merge(h, e)) :
        h \in HeadlineOptions, e \in ExperienceOptions}

\* keyword arguments: strs over a small alphabet, in both cases
KeywordStrs == {<<"a">>, <<"A">>, <<"b">>}

\* the longest keyword list a caller passes
MaxKeywords == 2

InitAnalyze ==
    /\ tool = "analyze_prospect_profile"
    /\ \E kw \in {EmptyDict} \cup
                 {[service_keywords |-> k] : k \in SeqsUpTo(KeywordStrs, MaxKeywords)} :
          args = Merge([profile_id |-> <<"p">>], kw)
    /\ env \in [profile : Profiles, skills : SkillLists]
    /\ pc = "start" /\ loc = EmptyDict /\ calls = << >> /\ ret = NoRet

(***************************************************************************)
(* generate_sales_outreach_context                                         *)
(***************************************************************************)
\* post.get("commentary", {}).get("text", "")[:100]
ActivityChars == 100
\* get_profile_posts(profile_id, limit=3)
PostsLimit == 3
\* skill_list[:5]
OutreachTopSkills == 5
\* experience[:3]
ExperienceSummary == 3

\* s.split(): the words of s between runs of spaces; cur is the word being read
RECURSIVE SplitFrom(_, _, _, _)
SplitFrom(s, i, cur, words) ==
    IF i > Len(s)
    THEN IF cur = << >> THEN words ELSE Append(words, cur)
    ELSE IF s[i] = " "
         THEN SplitFrom(s, i + 1, << >>, IF cur = << >> THEN words ELSE Append(words, cur))
         ELSE SplitFrom(s, i + 1, Append(cur, s[i]), words)

SplitWords(s) == SplitFrom(s, 1, << >>, << >>)

\* sep.join(xs)
RECURSIVE Join(_, _)
Join(sep, xs) ==
    IF Len(xs) = 0 THEN << >>
    ELSE IF Len(xs) = 1 THEN xs[1]
    ELSE xs[1] \o sep \o Join(sep, Tail(xs))

\* lines 1325-1338: the experience list of the context
OutreachExperience(profile) ==
    LET experience == Get(profile, "experience", << >>)
    IN [i \in 1..Len(experience) |->
           [company |-> Get(experience[i], "companyName", << >>),
            title |-> Get(experience[i], "title", << >>)]]

\* lines 1341-1347
OutreachEducation(profile) ==
    LET education == Get(profile, "education", << >>)
    IN [i \in 1..Len(education) |->
           [school |-> Get(education[i], "schoolName", << >>),
            degree |-> Get(education[i], "degreeName", << >>),
            field |-> Get(education[i], "fieldOfStudy", << >>)]]

\* lines 1359-1363
OutreachActivity(profile_posts) ==
    [i \in 1..Len(profile_posts) |->
        [type |-> "post",
         content |-> Take(Get(Get(profile_posts[i], "commentary", EmptyDict),
                              "text", << >>), ActivityChars) \o <<"...">>]]

\* lines 1378-1389: the details of the first company found, {} without one
OutreachCompanyDetails(companies, current_company) ==
    IF Truthy(companies)
    THEN [id |-> CompanyId(companies[1]),
          name |-> current_company,
          size |-> Get(companies[1], "staffCount", Unknown),
          industry |-> CompanyIndustry(companies[1])]
    ELSE EmptyDict

\* lines 1423-1429
RECURSIVE ServiceRelatedFrom(_, _, _, _)
ServiceRelatedFrom(skill_list, service_keywords, i, found) ==
    IF i > Len(skill_list)
    THEN found
    ELSE ServiceRelatedFrom(skill_list, service_keywords, i + 1,
            IF /\ \E k \in 1..Len(service_keywords) :
                     StrIn(Lower(service_keywords[k]), Lower(skill_list[i]))
               /\ ~ ListIn(skill_list[i], found)
            THEN Append(found, skill_list[i])
            ELSE found)

ServiceRelatedSkills(skill_list, company_service) ==
    ServiceRelatedFrom(skill_list, SplitWords(Lower(company_service)), 1, << >>)

\* lines 1413-1458
PersonalizationPoints(current, skill_list, education, experience, company_service) ==
    LET related == ServiceRelatedSkills(skill_list, company_service)
        shown == Take(experience, ExperienceSummary)
        role == IF Truthy(current.title)
                THEN << [type |-> "role",
                         context |-> <<"Current role as ">> \o current.title
                                       \o <<" at ">> \o current.company] >>
                ELSE << >>
        skills == IF Truthy(related)
                  THEN << [type |-> "skills",
                           context |-> <<"Skills related to your services: ">>
                                         \o Join(<<",", " ">>, related)] >>
                  ELSE << >>
        edu == IF Truthy(education) /\ Truthy(education[1].school)
               THEN << [type |-> "education",
                        context |-> <<"Educational background: ">> \o education[1].degree
                                      \o <<" in ">> \o education[1].field
                                      \o <<" from ">> \o education[1].school] >>
               ELSE << >>
        career == IF Len(experience) >= 2
                  THEN << [type |-> "career",
                           context |-> <<"Career progression: ">>
                              \o Join(<<" ", "->", " ">>,  \* the arrow of line 1457
                                      [i \in 1..Len(shown) |->
                                          shown[i].title \o <<" at ">> \o shown[i].company])] >>
                  ELSE << >>
    IN role \o skills \o edu \o career

\* lines 1464-1473
ConversationStarters(current, skill_list, education, company_service) ==
    LET related == ServiceRelatedSkills(skill_list, company_service)
    IN << <<"I noticed you've been at ">> \o current.company \o <<" as ">>
             \o current.title \o <<". How has your experience been so far?">>,
          <<"I saw you have expertise in ">> \o Join(<<",", " ">>, Take(skill_list, 2))
             \o <<". What projects are you currently focused on?">> >>
       \o (IF Truthy(related)
           THEN << <<"Your experience with ">> \o related[1] \o <<" caught my attention.">> >>
           ELSE << >>)
       \o (IF Truthy(education)
           THEN << <<"I see we share an interest in ">> \o education[1].field
                     \o <<". What drew you to that field?">> >>
           ELSE << >>)

\* lines 1395-1475: the context returned for a fetched profile
OutreachContext(profile_id, profile, skills, activity, company_details) ==
    LET current == CurrentJob(profile)
        skill_list == SkillNames(skills)
        education == OutreachEducation(profile)
        experience == OutreachExperience(profile)
    IN [prospect |-> [name |-> FullName(profile),
                      title |-> current.title,
                      company |-> current.company,
                      headline |-> Get(profile, "headline", << >>),
                      url |-> ProfileUrl(profile_id)],
        company_details |-> company_details,
        top_skills |-> Take(skill_list, OutreachTopSkills),
        education_background |-> education,
        experience_summary |-> Take(experience, ExperienceSummary),
        recent_activity |-> activity,
        common_connections |-> << >>,
        personalization_points |->
            PersonalizationPoints(current, skill_list, education, experience,
                                  args.company_service),
        conversation_starters |->
            ConversationStarters(current, skill_list, education, args.company_service)]

OutreachGetProfile ==
    /\ tool = "generate_sales_outreach_context" /\ pc = "body"
    /\ \E ok \in BOOLEAN :
          /\ calls' = Append(calls, Call("get_profile",
                          [public_id |-> args.profile_id], ok))
          /\ pc' = IF ok THEN "skills" ELSE "done"
          /\ ret' = IF ok THEN ret
                    ELSE ErrorStr("Error generating sales outreach context: ")
          /\ loc' = IF ok THEN [profile |-> env.profile] ELSE loc
    /\ UNCHANGED << tool, args, env >>

OutreachGetSkills ==
    /\ tool = "generate_sales_outreach_context" /\ pc = "skills"
    /\ \E ok \in BOOLEAN :
          /\ calls' = Append(calls, Call("get_profile_skills",
                          [public_id |-> args.profile_id], ok))
          /\ pc' = IF ok THEN "posts" ELSE "done"
          /\ ret' = IF ok THEN ret
                    ELSE ErrorStr("Error generating sales outreach context: ")
          /\ loc' = IF ok THEN Put(loc, "skills", env.skills) ELSE loc
    /\ UNCHANGED << tool, args, env >>

\* posts that get_profile_posts returns
PostLists ==
    { << >>,
      << [commentary |-> [text |-> <<"a", "b">>]], [actor |-> <<"a">>] >>,
      << [commentary |-> [text |-> [i \in 1..(ActivityChars + 1) |-> "a"]]] >> }

\* a posts fetch whose failure ends the tool with the error string
OutreachPostsUnguarded ==
    /\ tool = "generate_sales_outreach_context" /\ pc = "posts"
    /\ \E ok \in BOOLEAN, profile_posts \in PostLists :
          LET activity == OutreachActivity(profile_posts) IN
          /\ calls' = Append(calls, Call("get_profile_posts",
                          [public_id |-> args.profile_id, limit |-> PostsLimit], ok))
          /\ IF ~ ok
             THEN /\ ret' = ErrorStr("Error generating sales outreach context: ")
                  /\ pc' = "done" /\ loc' = loc
             ELSE IF Truthy(CurrentJob(loc.profile).company)
             THEN /\ loc' = Put(loc, "activity", activity)
                  /\ pc' = "company" /\ ret' = ret
             ELSE /\ ret' = JsonStr(OutreachContext(args.profile_id, loc.profile,
                                        loc.skills, activity, EmptyDict))
                  /\ pc' = "done" /\ loc' = loc
    /\ UNCHANGED << tool, args, env >>

\* the guarded posts fetch; without a current company the context is returned
OutreachPosts ==
    /\ tool = "generate_sales_outreach_context" /\ pc = "posts"
    /\ \E ok \in BOOLEAN, profile_posts \in PostLists :
          LET activity == IF ok THEN OutreachActivity(profile_posts) ELSE << >> IN
          /\ calls' = Append(calls, Call("get_profile_posts",
                          [public_id |-> args.profile_id, limit |-> PostsLimit], ok))
          /\ IF Truthy(CurrentJob(loc.profile).company)
             THEN /\ loc' = Put(loc, "activity", activity)
                  /\ pc' = "company" /\ ret' = ret
             ELSE /\ ret' = JsonStr(OutreachContext(args.profile_id, loc.profile,
                                        loc.skills, activity, EmptyDict))
                  /\ pc' = "done" /\ loc' = loc
    /\ UNCHANGED << tool, args, env >>

\* the guarded company search, and the return
OutreachCompany ==
    /\ tool = "generate_sales_outreach_context" /\ pc = "company"
    /\ \E ok \in BOOLEAN, companies \in SeqsUpTo(Companies, 1) :
          LET current_company == CurrentJob(loc.profile).company
              company_details == IF ok
                                 THEN OutreachCompanyDetails(companies, current_company)
                                 ELSE EmptyDict
          IN /\ calls' = Append(calls, Call("search_companies",
                             [keywords |-> current_company, limit |-> 1], ok))
             /\ ret' = JsonStr(OutreachContext(args.profile_id, loc.profile, loc.skills,
                                               loc.activity, company_details))
    /\ pc' = "done"
    /\ UNCHANGED << tool, args, env, loc >>

\* the education of a fetched profile: the key missing, or a list of entries
EducationOptions ==
    { EmptyDict,
      [education |-> << [schoolName |-> <<"s">>, degreeName |-> <<"d">>,
                         fieldOfStudy |-> <<"f">>] >>],
      [education |-> << [degreeName |-> <<"d">>] >>] }

\* a profile with more entries than experience_summary keeps
LongProfile ==
    [firstName |-> <<"a">>,
     experience |-> << ExpPast, ExpCurrent, ExpPast, ExpPast >>]

\* more skills than top_skills keeps
LongSkills ==
    [i \in 1..(OutreachTopSkills + 1) |-> [name |-> <<"s">> \o <<"a", "b", "c", "d", "e", "f", "g">>[i]]]

InitOutreach ==
    /\ tool = "generate_sales_outreach_context"
    /\ args \in [profile_id : {<<"p">>},
                 company_service : {<<"A", " ", " ", "x">>, <<"b">>}]
    /\ \E p \in Profiles \cup {LongProfile}, ed \in EducationOptions,
          sk \in SkillLists \cup {LongSkills} :
          env = [profile |-> Merge(p, ed), skills |-> sk]
    /\ pc = "start" /\ loc = EmptyDict /\ calls = << >> /\ ret = NoRet

InitProspect == InitAnalyze \/ InitOutreach

NextProspect ==
    \/ GetClient
    \/ AnalyzeGetProfile
    \/ AnalyzeGetSkills
    \/ OutreachGetProfile
    \/ OutreachGetSkills
    \/ OutreachPosts
    \/ OutreachCompany

SpecProspect == InitProspect /\ [][NextProspect]_vars

\* analyze_prospect_profile returned its analysis
Analyzed == tool = "analyze_prospect_profile" /\ Done /\ ret.kind = "json"

\* the keyword lists that differ from `keywords` only in letter case
CaseVariants(keywords) ==
    {v \in SeqsUpTo(KeywordStrs, MaxKeywords) :
        /\ Len(v) = Len(keywords)
        /\ \A i \in 1..Len(v) : Lower(v[i]) = Lower(keywords[i])}

\* C6: the local filters are case-insensitive; for analyze_prospect_profile,
\* service keywords that differ from the caller's only in letter case give the
\* same decision-maker flag, the same service score and the same opportunity
\* score on the same profile and skills.
C6_KeywordCaseIrrelevant ==
    Analyzed =>
        \A v \in CaseVariants(ServiceKeywords) :
            LET other == Analysis(args.profile_id, loc.profile, env.skills, v)
            IN /\ other.is_decision_maker = ret.value.is_decision_maker
               /\ other.service_score = ret.value.service_score
               /\ other.opportunity_score = ret.value.opportunity_score

\* C8: opportunity_level is "High" exactly when opportunity_score >= 70,
\* "Medium" exactly when 40 <= opportunity_score < 70 and "Low" exactly when
\* opportunity_score < 40, where opportunity_score is 30 for a decision maker
\* (else 0) plus min(5 * service_score, 50).
C8_OpportunityBuckets ==
    Analyzed =>
        LET a == ret.value IN
        /\ a.opportunity_level \in {"High", "Medium", "Low"}
        /\ a.opportunity_level = "High" <=> a.opportunity_score >= 70
        /\ a.opportunity_level = "Medium" <=>
              (40 <= a.opportunity_score /\ a.opportunity_score < 70)
        /\ a.opportunity_level = "Low" <=> a.opportunity_score < 40
        /\ a.opportunity_score =
              (IF a.is_decision_maker THEN 30 ELSE 0)
                  + (IF 5 * a.service_score <= 50 THEN 5 * a.service_score ELSE 50)

\* a decision maker whose score sits exactly on the "High" threshold
C8_Witness ==
    /\ Analyzed
    /\ ret.value.is_decision_maker
    /\ ret.value.opportunity_score = 70
    /\ ret.value.opportunity_level = "High"

(***************************************************************************)
(* The four tools that read a person's or a profile's experience.          *)
(***************************************************************************)
InitExperience == InitPeople \/ InitProspect

NextExperience ==
    \/ GetClient
    \/ SearchPeopleSearch
    \/ SearchPeopleSkill
    \/ SearchPeopleReturn
    \/ BySkillsSearch
    \/ BySkillsFilter
    \/ BySkillsFormat
    \/ BySkillsReturn
    \/ AnalyzeGetProfile
    \/ AnalyzeGetSkills
    \/ OutreachGetProfile
    \/ OutreachGetSkills
    \/ OutreachPosts
    \/ OutreachCompany

SpecExperience == InitExperience /\ [][NextExperience]_vars

\* the people whose records a people-search tool returned, in order
ReturnedPeople ==
    IF "filtered_people" \in DOMAIN loc
    THEN Take(loc.filtered_people, args.limit)
    ELSE env.people

\* the record has no experience entry to take a company from: the key is
\* absent, the list is empty, or its first entry has no companyName
NoCompanyUpstream(person) ==
    \/ "experience" \notin DOMAIN person
    \/ person.experience = << >>
    \/ "companyName" \notin DOMAIN person.experience[1]

\* C5: when an upstream record lacks an optional field (here the experience of
\* a person or a profile), the tool does not raise, returns its JSON when no
\* remote call failed, and the dependent output is the empty string: company
\* in search_people and search_people_by_skills, current_company and
\* current_title in analyze_prospect_profile, company and title of the
\* prospect in generate_sales_outreach_context.
C5_MissingExperienceDefaults ==
    (Done /\ ClientBuilt) =>
        /\ ret.kind # "raise"
        /\ ~ SomeCallRaised => ret.kind = "json"
        /\ (ret.kind = "json" /\ tool \in {"search_people", "search_people_by_skills"}) =>
              /\ Len(ret.value) = Len(ReturnedPeople)
              /\ \A i \in 1..Len(ret.value) :
                    NoCompanyUpstream(ReturnedPeople[i]) => ret.value[i].company = << >>
        /\ (ret.kind = "json" /\ tool = "analyze_prospect_profile"
                /\ Get(loc.profile, "experience", << >>) = << >>) =>
              /\ ret.value.current_company = << >>
              /\ ret.value.current_title = << >>
        /\ (ret.kind = "json" /\ tool = "generate_sales_outreach_context"
                /\ Get(loc.profile, "experience", << >>) = << >>) =>
              /\ ret.value.prospect.company = << >>
              /\ ret.value.prospect.title = << >>

\* analyze_prospect_profile returned the analysis of a profile that has no
\* experience key
C5_Witness ==
    /\ Analyzed
    /\ "experience" \notin DOMAIN loc.profile
    /\ ret.value.current_company = << >>

(***************************************************************************)
(* find_common_connections                                                 *)
(***************************************************************************)
\* min(len(common_skills), 5)
StrengthSkillCap == 5
\* limit: int = 5
CommonLimitDefault == 5

\* [exp.get("companyName", "").lower() for exp in profile.get("experience", [])]
CompanyNames(profile) ==
    LET experience == Get(profile, "experience", << >>)
    IN [i \in 1..Len(experience) |-> Lower(Get(experience[i], "companyName", << >>))]

\* [edu.get("schoolName", "").lower() for edu in profile.get("education", [])]
SchoolNames(profile) ==
    LET education == Get(profile, "education", << >>)
    IN [i \in 1..Len(education) |-> Lower(Get(education[i], "schoolName", << >>))]

\* [s.get("name", "").lower() for s in client.get_profile_skills(profile_id)]
LoweredSkillNames(skills) ==
    [i \in 1..Len(skills) |-> Lower(Get(skills[i], "name", << >>))]

\* the loops of lines 1144-1148, 1153-1157 and 1162-1166: the items of xs that
\* are in ys, each once, in the order of xs
RECURSIVE CommonFrom(_, _, _, _)
CommonFrom(xs, ys, i, common) ==
    IF i > Len(xs)
    THEN common
    ELSE IF ListIn(xs[i], ys) /\ ~ ListIn(xs[i], common)
         THEN CommonFrom(xs, ys, i + 1, Append(common, xs[i]))
         ELSE CommonFrom(xs, ys, i + 1, common)

\* a loop that appends an item every time it meets it
CommonRepeated(xs, ys) ==
    LET InBoth(x) == ListIn(x, ys)
    IN SelectSeq(xs, InBoth)

Common(xs, ys) == CommonFrom(xs, ys, 1, << >>)

\* a strength that counts every common skill
ConnectionStrengthUncapped(common_companies, common_schools, common_skills) ==
    Len(common_companies) + Len(common_schools) + Len(common_skills)

\* line 1183
ConnectionStrength(common_companies, common_schools, common_skills) ==
    Len(common_companies) + Len(common_schools)
        + Min(Len(common_skills), StrengthSkillCap)

\* lines 1137-1184: the comparison of two fetched profiles and their skills
CommonConnections(profile_id1, profile_id2, profile1, profile2, skills1, skills2, limit) ==
    LET common_companies == Common(CompanyNames(profile1), CompanyNames(profile2))
        common_schools == Common(SchoolNames(profile1), SchoolNames(profile2))
        common_skills == Common(LoweredSkillNames(skills1), LoweredSkillNames(skills2))
    IN [profile1 |-> [id |-> profile_id1, name |-> FullName(profile1),
                      url |-> ProfileUrl(profile_id1)],
        profile2 |-> [id |-> profile_id2, name |-> FullName(profile2),
                      url |-> ProfileUrl(profile_id2)],
        common_companies |-> common_companies,
        common_schools |-> common_schools,
        common_skills |-> Take(common_skills, limit),
        connection_strength |->
            ConnectionStrength(common_companies, common_schools, common_skills)]

\* client.get_profile(profile_id1)
CommonGetProfile1 ==
    /\ tool = "find_common_connections" /\ pc = "body"
    /\ \E ok \in BOOLEAN :
          /\ calls' = Append(calls, Call("get_profile",
                          [public_id |-> args.profile_id1], ok))
          /\ pc' = IF ok THEN "profile2" ELSE "done"
          /\ ret' = IF ok THEN ret ELSE ErrorStr("Error finding common connections: ")
          /\ loc' = IF ok THEN [profile1 |-> env.profiles[args.profile_id1]] ELSE loc
    /\ UNCHANGED << tool, args, env >>

\* client.get_profile(profile_id2)
CommonGetProfile2 ==
    /\ tool = "find_common_connections" /\ pc = "profile2"
    /\ \E ok \in BOOLEAN :
          /\ calls' = Append(calls, Call("get_profile",
                          [public_id |-> args.profile_id2], ok))
          /\ pc' = IF ok THEN "skills1" ELSE "done"
          /\ ret' = IF ok THEN ret ELSE ErrorStr("Error finding common connections: ")
          /\ loc' = IF ok THEN Put(loc, "profile2", env.profiles[args.profile_id2]) ELSE loc
    /\ UNCHANGED << tool, args, env >>

\* client.get_profile_skills(profile_id1)
CommonGetSkills1 ==
    /\ tool = "find_common_connections" /\ pc = "skills1"
    /\ \E ok \in BOOLEAN :
          /\ calls' = Append(calls, Call("get_profile_skills",
                          [public_id |-> args.profile_id1], ok))
          /\ pc' = IF ok THEN "skills2" ELSE "done"
          /\ ret' = IF ok THEN ret ELSE ErrorStr("Error finding common connections: ")
          /\ loc' = IF ok THEN Put(loc, "skills1", env.skill_lists[args.profile_id1]) ELSE loc
    /\ UNCHANGED << tool, args, env >>

\* client.get_profile_skills(profile_id2), and the return
CommonGetSkills2 ==
    /\ tool = "find_common_connections" /\ pc = "skills2"
    /\ \E ok \in BOOLEAN :
          /\ calls' = Append(calls, Call("get_profile_skills",
                          [public_id |-> args.profile_id2], ok))
          /\ ret' = IF ok
                    THEN JsonStr(CommonConnections(args.profile_id1, args.profile_id2,
                                    loc.profile1, loc.profile2, loc.skills1,
                                    env.skill_lists[args.profile_id2], args.limit))
                    ELSE ErrorStr("Error finding common connections: ")
    /\ pc' = "done"
    /\ UNCHANGED << tool, args, env, loc >>

\* the two profile identifiers
ProfileIds == {<<"p">>, <<"q">>}

\* the experience of a profile: employers in both letter cases, one more than once
CommonExperience ==
    { EmptyDict,
      [experience |-> << [companyName |-> <<"A", "b">>], [title |-> <<"c">>] >>],
      [experience |-> << [companyName |-> <<"a", "b">>], [companyName |-> <<"c">>],
                         [companyName |-> <<"a", "B">>] >>],
      [experience |-> << [companyName |-> <<"c">>], [companyName |-> <<"C">>],
                         [companyName |-> <<"a", "b">>] >>] }

\* the education of a profile
CommonEducation ==
    { EmptyDict,
      [education |-> << [schoolName |-> <<"S">>], [schoolName |-> <<"t">>] >>],
      [education |-> << [schoolName |-> <<"T">>], [schoolName |-> <<"s">>],
                        [degreeName |-> <<"d">>] >>] }

\* the skills named by the letters of s
Named(s) == [i \in 1..Len(s) |-> [name |-> << s[i] >>]]

\* skill lists of the two profiles: up to seven names, in both letter cases
CommonSkillLists ==
    { << >>,
      Named(<<"a", "b", "c", "d", "e", "f">>),
      Named(<<"F", "E", "D", "C", "B", "A", "a">>),
      Named(<<"a", "A", "g">>) \o << [endorsements |-> 1] >> }

InitCommon ==
    /\ tool = "find_common_connections"
    /\ args \in [profile_id1 : ProfileIds, profile_id2 : ProfileIds,
                 limit : (1..MaxLimit) \cup {CommonLimitDefault}]
    /\ \E e \in [ProfileIds -> CommonExperience], d \in [ProfileIds -> CommonEducation],
          sk \in [ProfileIds -> CommonSkillLists] :
          env = [profiles |-> [id \in ProfileIds |->
                                  Merge([firstName |-> id], Merge(e[id], d[id]))],
                 skill_lists |-> sk]
    /\ pc = "start" /\ loc = EmptyDict /\ calls = << >> /\ ret = NoRet

NextCommon ==
    \/ GetClient
    \/ CommonGetProfile1
    \/ CommonGetProfile2
    \/ CommonGetSkills1
    \/ CommonGetSkills2

SpecCommon == InitCommon /\ [][NextCommon]_vars

\* find_common_connections returned its comparison
Compared == tool = "find_common_connections" /\ Done /\ ret.kind = "json"

\* what the call with the two identifiers swapped returns on the same upstream data
Swapped ==
    CommonConnections(args.profile_id2, args.profile_id1,
                      env.profiles[args.profile_id2], env.profiles[args.profile_id1],
                      env.skill_lists[args.profile_id2], env.skill_lists[args.profile_id1],
                      args.limit)

\* the set of the lowered values of `key` in the entries of a profile's list
LoweredValues(profile, list, key) ==
    LET entries == Get(profile, list, << >>)
    IN {Lower(Get(entries[i], key, << >>)) : i \in 1..Len(entries)}

\* C7: find_common_connections is symmetric in its company and school
\* intersections: the call with the identifiers swapped gives the same set of
\* common_companies and the same set of common_schools, and each list is the
\* duplicate-free case-insensitive intersection of the two profiles' employer
\* names and school names.
C7_SymmetricIntersections ==
    Compared =>
        LET r == ret.value
            p1 == env.profiles[args.profile_id1]
            p2 == env.profiles[args.profile_id2]
        IN /\ ToSet(r.common_companies) = ToSet(Swapped.common_companies)
           /\ ToSet(r.common_schools) = ToSet(Swapped.common_schools)
           /\ ToSet(r.common_companies) =
                 LoweredValues(p1, "experience", "companyName")
                     \cap LoweredValues(p2, "experience", "companyName")
           /\ ToSet(r.common_schools) =
                 LoweredValues(p1, "education", "schoolName")
                     \cap LoweredValues(p2, "education", "schoolName")
           /\ Cardinality(ToSet(r.common_companies)) = Len(r.common_companies)
           /\ Cardinality(ToSet(r.common_schools)) = Len(r.common_schools)

\* two different profiles whose employers match only across letter case, one
\* of them more than once, and whose lists come out in different orders
C7_Witness ==
    /\ Compared
    /\ args.profile_id1 # args.profile_id2
    /\ Len(ret.value.common_companies) = 2
    /\ ret.value.common_companies # Swapped.common_companies
    /\ Len(CompanyNames(loc.profile1)) = 3
    /\ ret.value.common_schools # << >>

\* the number of skill names the two profiles share, letter case aside
CommonSkillCount ==
    Cardinality({Lower(Get(env.skill_lists[args.profile_id1][i], "name", << >>)) :
                    i \in 1..Len(env.skill_lists[args.profile_id1])}
                \cap
                {Lower(Get(env.skill_lists[args.profile_id2][i], "name", << >>)) :
                    i \in 1..Len(env.skill_lists[args.profile_id2])})

\* C9: connection_strength is the number of common companies plus the number
\* of common schools plus the number of common skills capped at 5; the cap is
\* applied to the full common-skill count, whatever the limit that truncates
\* the returned common_skills.
C9_ConnectionStrength ==
    Compared =>
        LET r == ret.value IN
        /\ r.connection_strength =
              Len(r.common_companies) + Len(r.common_schools)
                  + (IF CommonSkillCount <= 5 THEN CommonSkillCount ELSE 5)
        /\ Len(r.common_skills) =
              (IF CommonSkillCount <= args.limit THEN CommonSkillCount ELSE args.limit)

\* six common skills, two of them returned, five of them counted
C9_Witness ==
    /\ Compared
    /\ CommonSkillCount = 6
    /\ args.limit = 2
    /\ Len(ret.value.common_skills) = 2
    /\ ret.value.connection_strength =
          Len(ret.value.common_companies) + Len(ret.value.common_schools) + 5

(***************************************************************************)
(* find_decision_makers                                                    *)
(***************************************************************************)
\* titles = ["CEO", "CTO", "CIO", "Director", "VP", "Head", "Manager"]
DefaultTitles ==
    << << "C", "E", "O" >>,
       << "C", "T", "O" >>,
       << "C", "I", "O" >>,
       << "D", "i", "r", "e", "c", "t", "o", "r" >>,
       << "V", "P" >>,
       << "H", "e", "a", "d" >>,
       << "M", "a", "n", "a", "g", "e", "r" >> >>

\* a title list that ignores the caller's titles
DecisionTitlesDefault == DefaultTitles

\* the titles searched: the caller's, or the defaults when missing or empty
DecisionTitles == IF Given("titles") THEN args.titles ELSE DefaultTitles

\* the record find_decision_makers returns for one person
DecisionResult(person, company_name) ==
    [id |-> Get(person, "public_id", << >>),
     name |-> FullName(person),
     title |-> Get(person, "occupation", << >>),
     company |-> company_name,
     location |-> Get(person, "locationName", << >>),
     url |-> ProfileUrl(Get(person, "public_id", << >>))]

\* lines 547-562
DecisionResults(decision_makers, company_name, limit) ==
    LET shown == Take(decision_makers, limit)
    IN [i \in 1..Len(shown) |-> DecisionResult(shown[i], company_name)]

\* companies that get_company returns: without a name, with an empty one, named
DecisionCompanies == {EmptyDict, [name |-> << >>], [name |-> <<"a">>]}

\* lists of people that one people search returns
TitleHits ==
    { << >>,
      << [public_id |-> <<"p">>, firstName |-> <<"a">>, occupation |-> <<"C", "T", "O">>] >>,
      << [public_id |-> <<"q">>, lastName |-> <<"b">>],
         [public_id |-> <<"r">>, locationName |-> <<"c">>] >> }

\* lines 514-519: the company's name, needed before any search
DecisionGetCompany ==
    /\ tool = "find_decision_makers" /\ pc = "body"
    /\ \E ok \in BOOLEAN :
          LET company == env.company
              company_name == Get(company, "name", << >>) IN
          /\ calls' = Append(calls, Call("get_company",
                          [public_id |-> args.company_id], ok))
          /\ IF ~ ok
             THEN /\ ret' = ErrorStr("Error finding decision makers: ")
                  /\ pc' = "done" /\ loc' = loc
             ELSE IF ~ Truthy(company_name)
             THEN /\ ret' = ErrorStr("Error: Could not find company name")
                  /\ pc' = "done" /\ loc' = loc
             ELSE /\ loc' = [company_name |-> company_name, t |-> 1,
                             decision_makers |-> << >>]
                  /\ pc' = "search" /\ ret' = ret
    /\ UNCHANGED << tool, args, env >>

\* lines 524-542: one pass of the loop over the titles; the loop ends with the
\* last title or once limit people were collected, and the tool returns
DecisionSearch ==
    /\ tool = "find_decision_makers" /\ pc = "search"
    /\ \E ok \in BOOLEAN, people \in TitleHits :
          LET titles == DecisionTitles
              decision_makers == loc.decision_makers \o people
          IN /\ calls' = Append(calls, Call("search_people",
                             [company_name |-> loc.company_name,
                              title |-> titles[loc.t],
                              limit |-> (args.limit \div Len(titles)) + 1], ok))
             /\ IF ~ ok
                THEN /\ ret' = ErrorStr("Error finding decision makers: ")
                     /\ pc' = "done" /\ loc' = loc
                ELSE IF Len(decision_makers) >= args.limit \/ loc.t = Len(titles)
                THEN /\ ret' = JsonStr(DecisionResults(decision_makers,
                                           loc.company_name, args.limit))
                     /\ pc' = "done"
                     /\ loc' = [loc EXCEPT !.decision_makers = decision_makers]
                ELSE /\ loc' = [loc EXCEPT !.decision_makers = decision_makers,
                                           !.t = @ + 1]
                     /\ pc' = pc /\ ret' = ret
    /\ UNCHANGED << tool, args, env >>

InitFindDecisionMakers ==
    /\ tool = "find_decision_makers"
    /\ \E req \in [company_id : {<<"1">>}, limit : 1..MaxLimit],
          titles \in {EmptyDict} \cup
                     {[titles |-> t] : t \in {<< >>, << << "C", "T", "O" >> >>,
                                              << << "V", "P" >>, << "C", "T", "O" >> >>}} :
          args = Merge(req, titles)
    /\ env \in [company : DecisionCompanies]
    /\ pc = "start" /\ loc = EmptyDict /\ calls = << >> /\ ret = NoRet

(***************************************************************************)
(* generate_lead_recommendations                                           *)
(***************************************************************************)
\* titles = ["CTO", "CIO", "IT Director", "VP of Technology", "Head of IT"]
LeadTitles ==
    << << "C", "T", "O" >>,
       << "C", "I", "O" >>,
       << "I", "T", " ", "D", "i", "r", "e", "c", "t", "o", "r" >>,
       << "V", "P", " ", "o", "f", " ", "T", "e", "c", "h", "n", "o", "l", "o", "g", "y" >>,
       << "H", "e", "a", "d", " ", "o", "f", " ", "I", "T" >> >>

\* titles[:2]
TitlesSearched == 2
\* search_people(..., limit=2)
PeoplePerTitle == 2
\* if len(decision_makers) >= 2: break
EnoughDecisionMakers == 2
\* get_company_updates(company_id, limit=5)
LeadUpdatesLimit == 5
\* search_jobs(..., limit=5)
LeadJobsLimit == 5

InformationTechnology == << "I", "n", "f", "o", "r", "m", "a", "t", "i", "o", "n", " ", "T", "e", "c", "h", "n", "o", "l", "o", "g", "y" >>

\* lines 606-619: range_min <= staff_count <= range_max for the named size
InSizeRange(staff_count, company_size) ==
    LET size == Lower(company_size) IN
    IF size = << "s", "m", "a", "l", "l" >> THEN 1 <= staff_count /\ staff_count <= 50
    ELSE IF size = << "m", "e", "d", "i", "u", "m" >> THEN 51 <= staff_count /\ staff_count <= 500
    ELSE IF size = << "l", "a", "r", "g", "e" >> THEN 501 <= staff_count
    ELSE 0 <= staff_count

\* lines 604-619
FilterBySize(companies) ==
    LET Fits(company) == InSizeRange(Get(company, "staffCount", 0), args.company_size)
    IN IF Given("company_size") THEN SelectSeq(companies, Fits) ELSE companies

\* lines 652-660: the entry of one person
LeadPerson(person) ==
    [name |-> FullName(person),
     title |-> Get(person, "occupation", << >>),
     url |-> ProfileUrl(Get(person, "public_id", << >>))]

\* lines 650-664: the people of one search are appended until two decision
\* makers are held; the break leaves this loop only
RECURSIVE AddPeople(_, _, _)
AddPeople(decision_makers, people, i) ==
    IF i > Len(people)
    THEN decision_makers
    ELSE IF Len(decision_makers) + 1 >= EnoughDecisionMakers
         THEN Append(decision_makers, LeadPerson(people[i]))
         ELSE AddPeople(Append(decision_makers, LeadPerson(people[i])), people, i + 1)

UpdateV2 == "com.linkedin.voyager.feed.render.UpdateV2"

\* update.get("value", {}).get(UpdateV2, {}).get("commentary", {}).get("text", "")
UpdateText(update) ==
    Get(Get(Get(Get(update, "value", EmptyDict), UpdateV2, EmptyDict),
            "commentary", EmptyDict), "text", << >>)

\* mentions found by comparing the letters as they are written
RECURSIVE MentionsExact(_, _, _)
MentionsExact(updates, technologies, i) ==
    IF i > Len(updates)
    THEN << >>
    ELSE LET Mentioned(tech) == StrIn(tech, UpdateText(updates[i]))
         IN SelectSeq(technologies, Mentioned) \o MentionsExact(updates, technologies, i + 1)

\* lines 679-685: every technology an update mentions, once per update
RECURSIVE Mentions(_, _, _)
Mentions(updates, technologies, i) ==
    IF i > Len(updates)
    THEN << >>
    ELSE LET Mentioned(tech) == StrIn(Lower(tech), Lower(UpdateText(updates[i])))
         IN SelectSeq(technologies, Mentioned) \o Mentions(updates, technologies, i + 1)

\* the mentions of a company's updates, letters compared as they are written
FitMentionsExact(updates, technologies) == MentionsExact(updates, technologies, 1)

\* lines 678-685: the mentions of a company's updates
FitMentions(updates, technologies) == Mentions(updates, technologies, 1)

HighFit(mentions) ==
    <<"High - Mentioned in company updates: ">> \o Join(<<",", " ">>, mentions)

MediumFit == <<"Medium - Company has job postings with relevant technologies">>

LowFit == <<"Low - No direct mentions found">>

\* lines 704-713
Recommendation(company, technology_fit, decision_makers) ==
    [company_id |-> CompanyId(company),
     company_name |-> Get(company, "name", Unknown),
     industry |-> CompanyIndustry(company),
     location |-> CompanyLocation(company),
     size |-> Get(company, "staffCount", Unknown),
     technology_fit |-> technology_fit,
     decision_makers |-> decision_makers,
     company_url |-> CompanyUrl(CompanyId(company))]

\* lines 704-715: the company's recommendation is appended; the loop goes on to
\* the next company, or the tool returns after the last one
FinishCompany(technology_fit, decision_makers) ==
    LET recommendations ==
            Append(loc.recommendations,
                   Recommendation(loc.companies[loc.i], technology_fit, decision_makers))
    IN IF loc.i < Len(loc.companies)
       THEN /\ loc' = [loc EXCEPT !.i = @ + 1, !.t = 1, !.decision_makers = << >>,
                                  !.recommendations = recommendations]
            /\ pc' = "people" /\ ret' = ret
       ELSE /\ loc' = [loc EXCEPT !.decision_makers = decision_makers,
                                  !.recommendations = recommendations]
            /\ pc' = "done" /\ ret' = JsonStr(recommendations)

\* lists of companies that search_companies returns
LeadCompanyLists ==
    { << >>,
      << [entityUrn |-> <<"u", ":", "3">>] >>,
      << [entityUrn |-> <<"u", ":", "1">>, name |-> <<"a", "b">>,
          industries |-> << <<"a">> >>, headquarter |-> [country |-> <<"b">>],
          staffCount |-> 10],
         [name |-> <<"b">>, staffCount |-> 1000] >> }

\* lines 586-624: the company search and the size filter
LeadsSearchCompanies ==
    /\ tool = "generate_lead_recommendations" /\ pc = "body"
    /\ \E ok \in BOOLEAN, companies \in LeadCompanyLists :
          LET industry == IF Given("industry") THEN args.industry
                          ELSE InformationTechnology
              search_params == PutGiven([keywords |-> industry], "location", "location")
              filtered_companies == Take(FilterBySize(companies), args.limit)
          IN /\ calls' = Append(calls, Call("search_companies",
                             Put(search_params, "limit", args.limit * 2), ok))
             /\ IF ~ ok
                THEN /\ ret' = ErrorStr("Error generating lead recommendations: ")
                     /\ pc' = "done" /\ loc' = loc
                ELSE IF filtered_companies = << >>
                THEN /\ ret' = JsonStr(<< >>)
                     /\ pc' = "done" /\ loc' = loc
                ELSE /\ loc' = [companies |-> filtered_companies, i |-> 1, t |-> 1,
                                decision_makers |-> << >>, recommendations |-> << >>]
                     /\ pc' = "people" /\ ret' = ret
    /\ UNCHANGED << tool, args, env >>

\* lines 637-667: the people search for one of the two titles; a failure ends
\* the company's searches and keeps the decision makers found so far
LeadsSearchPeople ==
    /\ tool = "generate_lead_recommendations" /\ pc = "people"
    /\ \E ok \in BOOLEAN, people \in TitleHits :
          LET company_name == Get(loc.companies[loc.i], "name", Unknown)
              decision_makers == IF ok THEN AddPeople(loc.decision_makers, people, 1)
                                 ELSE loc.decision_makers
          IN /\ calls' = Append(calls, Call("search_people",
                             [company_name |-> company_name,
                              title |-> LeadTitles[loc.t],
                              limit |-> PeoplePerTitle], ok))
             /\ IF ok /\ loc.t < TitlesSearched
                THEN /\ loc' = [loc EXCEPT !.decision_makers = decision_makers,
                                           !.t = @ + 1]
                     /\ pc' = pc /\ ret' = ret
                ELSE IF Given("technologies")
                THEN /\ loc' = [loc EXCEPT !.decision_makers = decision_makers]
                     /\ pc' = "updates" /\ ret' = ret
                ELSE FinishCompany(Unknown, decision_makers)
    /\ UNCHANGED << tool, args, env >>

\* lists of updates that get_company_updates returns
LeadUpdateLists ==
    { << >>,
      << [value |-> [x \in {UpdateV2} |-> [commentary |-> [text |-> <<"A", " ", "b">>]]]],
         [value |-> EmptyDict] >> }

\* lists of jobs that search_jobs returns
LeadJobLists == { << >>, << [title |-> <<"a">>] >> }

\* lines 673-688: the company's updates are searched for the technologies
LeadsUpdates ==
    /\ tool = "generate_lead_recommendations" /\ pc = "updates"
    /\ \E ok \in BOOLEAN :
          LET updates == env.updates[loc.i]
              mentions == FitMentions(updates, args.technologies)
          IN /\ calls' = Append(calls, Call("get_company_updates",
                             [public_id |-> CompanyId(loc.companies[loc.i]),
                              limit |-> LeadUpdatesLimit], ok))
             /\ IF ~ ok
                THEN FinishCompany(Unknown, loc.decision_makers)
                ELSE IF Truthy(mentions)
                THEN FinishCompany(HighFit(mentions), loc.decision_makers)
                ELSE pc' = "jobs" /\ loc' = loc /\ ret' = ret
    /\ UNCHANGED << tool, args, env >>

\* lines 689-702: without a mention, the company's job postings decide
LeadsJobs ==
    /\ tool = "generate_lead_recommendations" /\ pc = "jobs"
    /\ \E ok \in BOOLEAN :
          LET jobs == env.jobs[loc.i] IN
          /\ calls' = Append(calls, Call("search_jobs",
                          [keywords |-> Join(<<" ">>, args.technologies),
                           company_name |-> Get(loc.companies[loc.i], "name", Unknown),
                           limit |-> LeadJobsLimit], ok))
          /\ FinishCompany(IF ~ ok THEN Unknown
                           ELSE IF Truthy(jobs) THEN MediumFit ELSE LowFit,
                           loc.decision_makers)
    /\ UNCHANGED << tool, args, env >>

InitLeadRecommendations ==
    /\ tool = "generate_lead_recommendations"
    /\ \E req \in [limit : 1..MaxLimit],
          opt \in OptArgs({"industry"}, {<<"b">>}),
          size \in {EmptyDict, [company_size |-> << "S", "m", "a", "l", "l" >>]},
          tech \in {EmptyDict, [technologies |-> << <<"a">>, <<"c">> >>]} :
          args = Merge(Merge(req, opt), Merge(size, tech))
    /\ env \in IF "technologies" \in DOMAIN args
               THEN [updates : [1..2 -> LeadUpdateLists], jobs : [1..2 -> LeadJobLists]]
               ELSE {[updates |-> [i \in 1..2 |-> << >>], jobs |-> [i \in 1..2 |-> << >>]]}
    /\ pc = "start" /\ loc = EmptyDict /\ calls = << >> /\ ret = NoRet

InitLeads == InitFindDecisionMakers \/ InitLeadRecommendations

NextLeads ==
    \/ GetClient
    \/ DecisionGetCompany
    \/ DecisionSearch
    \/ LeadsSearchCompanies
    \/ LeadsSearchPeople
    \/ LeadsUpdates
    \/ LeadsJobs

SpecLeads == InitLeads /\ [][NextLeads]_vars

\* the step issues a people search of one of the two tools that loop over titles
TitleSearch ==
    /\ tool \in {"find_decision_makers", "generate_lead_recommendations"}
    /\ Len(calls') = Len(calls) + 1
    /\ calls'[Len(calls')].op = "search_people"

\* the titles the tool loops over
TitleList ==
    IF tool = "find_decision_makers" THEN DecisionTitles
    ELSE Take(LeadTitles, 2)

\* the count at which the tool stops collecting people (for the company)
RequestedCount == IF tool = "find_decision_makers" THEN args.limit ELSE 2

\* C10: in find_decision_makers and generate_lead_recommendations a people
\* search is issued for the next title of the list only, directly after the
\* searches of the titles before it, and never once the requested count of
\* people (limit, or 2 decision makers for the company) has been collected.
C10_TitleSearches ==
    [][TitleSearch =>
          /\ loc.t <= Len(TitleList)
          /\ calls'[Len(calls')].params.title = TitleList[loc.t]
          /\ \A j \in 1..(loc.t - 1) :
                LET before == calls[Len(calls) - (loc.t - 1) + j]
                IN before.op = "search_people" /\ before.params.title = TitleList[j]
          /\ Len(loc.decision_makers) < RequestedCount]_vars

(***************************************************************************)
(* get_company_updates                                                     *)
(***************************************************************************)
\* Python's None, which json.dumps renders as null
None == << "None" >>

NoContent == << "N", "o", " ", "c", "o", "n", "t", "e", "n", "t" >>

\* update.get("value", {}).get(UpdateV2, {})
UpdateBody(update) == Get(Get(update, "value", EmptyDict), UpdateV2, EmptyDict)

\* lines 479-490: the record of one update; timestamp stays None without an actor
UpdateResult(update) ==
    LET actor == Get(UpdateBody(update), "actor", EmptyDict)
    IN [content |-> Get(Get(UpdateBody(update), "commentary", EmptyDict),
                        "text", NoContent),
        timestamp |-> IF Truthy(actor)
                      THEN Get(Get(actor, "subDescription", EmptyDict), "text", << >>)
                      ELSE None]

\* lines 477-490
UpdateResults(updates) == [i \in 1..Len(updates) |-> UpdateResult(updates[i])]

\* updates that client.get_company_updates returns
CompanyUpdates ==
    { [value |-> [x \in {UpdateV2} |->
                     [commentary |-> [text |-> <<"a">>],
                      actor |-> [subDescription |-> [text |-> <<"1", "d">>]]]]],
      [value |-> [x \in {UpdateV2} |-> [actor |-> [name |-> <<"b">>]]]],
      [value |-> [x \in {UpdateV2} |-> [commentary |-> [text |-> <<"b">>]]]] }

GetCompanyUpdates ==
    /\ tool = "get_company_updates" /\ pc = "body"
    /\ \E ok \in BOOLEAN :
          /\ calls' = Append(calls, Call("get_company_updates",
                          [public_id |-> args.company_id, limit |-> args.limit], ok))
          /\ ret' = IF ok THEN JsonStr(UpdateResults(env.updates))
                    ELSE ErrorStr("Error getting company updates: ")
    /\ pc' = "done"
    /\ UNCHANGED << tool, args, env, loc >>

InitGetCompanyUpdates ==
    /\ tool = "get_company_updates"
    /\ args \in [company_id : {<<"1">>}, limit : 1..MaxLimit]
    /\ env \in [updates : SeqsUpTo(CompanyUpdates, MaxUpstream)]
    /\ pc = "start" /\ loc = EmptyDict /\ calls = << >> /\ ret = NoRet

(***************************************************************************)
(* find_companies_using_technologies                                       *)
(***************************************************************************)
\* technologies[:2]
KeywordTechnologies == 2
\* limit=limit * 3 and companies[:limit * 3]
CompaniesFactor == 3
\* limit=remaining * 2
JobsFactor == 2

JobPosting == << "Job Posting" >>

\* lines 1010-1026: the parameters of the company search
TechSearchParams ==
    LET p1 == IF Truthy(args.technologies)
              THEN [keywords |-> Join(<<" ">>, Take(args.technologies, KeywordTechnologies))]
              ELSE EmptyDict
        p2 == PutGiven(p1, "industry", "industry")
        p3 == PutGiven(p2, "location", "location")
    IN Put(p3, "limit", args.limit * CompaniesFactor)

\* lines 1036-1039: the technologies the company's description mentions
TechMentions(technologies, company) ==
    LET company_description == Lower(Get(company, "description", << >>))
        Mentioned(tech) == StrIn(Lower(tech), company_description)
    IN SelectSeq(technologies, Mentioned)

\* lines 1050-1058
TechCompanyResult(company, tech_mentions) ==
    [id |-> CompanyId(company),
     name |-> Get(company, "name", Unknown),
     industry |-> CompanyIndustry(company),
     location |-> CompanyLocation(company),
     size |-> Get(company, "staffCount", Unknown),
     technologies_mentioned |-> tech_mentions,
     url |-> CompanyUrl(CompanyId(company))]

\* lines 1030-1062: the companies that mention a technology, until limit are held
RECURSIVE TechCompanies(_, _, _, _, _)
TechCompanies(companies, technologies, limit, i, results) ==
    IF i > Len(companies)
    THEN results
    ELSE IF ~ Truthy(TechMentions(technologies, companies[i]))
    THEN TechCompanies(companies, technologies, limit, i + 1, results)
    ELSE IF Len(results) + 1 >= limit
    THEN Append(results, TechCompanyResult(companies[i],
                            TechMentions(technologies, companies[i])))
    ELSE TechCompanies(companies, technologies, limit, i + 1,
            Append(results, TechCompanyResult(companies[i],
                               TechMentions(technologies, companies[i]))))

\* lines 1090-1094: the company of a job posting: its id (None without an
\* entityUrn) and its name
JobCompany(job_data) ==
    LET company_info ==
            Get(Get(Get(job_data, "companyDetails", EmptyDict), WebCompany, EmptyDict),
                "companyResolutionResult", EmptyDict)
    IN [id |-> IF Truthy(Get(company_info, "entityUrn", << >>))
               THEN SplitLast(company_info.entityUrn)
               ELSE None,
        name |-> Get(company_info, "name", Unknown)]

\* lines 1100-1109
TechJobResult(company, tech) ==
    [id |-> company.id,
     name |-> company.name,
     industry |-> Unknown,
     location |-> Unknown,
     size |-> Unknown,
     technologies_mentioned |-> << tech >>,
     url |-> IF company.id # None /\ Truthy(company.id)
             THEN CompanyUrl(company.id) ELSE << "#" >>,
     source |-> JobPosting]

\* lists of companies that client.search_companies returns
TechCompanyLists ==
    { << >>,
      << [entityUrn |-> <<"u", ":", "1">>, name |-> <<"a", "b">>,
          description |-> <<"A", " ", "b">>, staffCount |-> 10],
         [name |-> <<"c">>, description |-> <<"c">>],
         [entityUrn |-> <<"u", ":", "3">>, description |-> <<"b">>] >> }

\* lists of jobs that client.search_jobs returns for one technology
TechJobLists ==
    { << >>,
      << [entityUrn |-> <<"j", ":", "1">>] >>,
      << [entityUrn |-> <<"j", ":", "1">>], [title |-> <<"a">>] >> }

\* a loop over the technologies that does not look at the number of results
TechNextTechnologyAll(results) ==
    IF loc.t < Len(args.technologies)
    THEN /\ loc' = [loc EXCEPT !.results = results, !.t = @ + 1]
         /\ pc' = "jobs" /\ ret' = ret
    ELSE /\ loc' = [loc EXCEPT !.results = results]
         /\ pc' = "done" /\ ret' = JsonStr(results)

\* after the jobs of one technology: the next technology while fewer than
\* limit results are held (lines 1069-1072), or the return (line 1114)
TechNextTechnology(results) ==
    IF loc.t < Len(args.technologies) /\ Len(results) < args.limit
    THEN /\ loc' = [loc EXCEPT !.results = results, !.t = @ + 1]
         /\ pc' = "jobs" /\ ret' = ret
    ELSE /\ loc' = [loc EXCEPT !.results = results]
         /\ pc' = "done" /\ ret' = JsonStr(results)

\* lines 1010-1066: the company search and the companies that mention a technology
TechSearchCompanies ==
    /\ tool = "find_companies_using_technologies" /\ pc = "body"
    /\ \E ok \in BOOLEAN, companies \in TechCompanyLists :
          LET results == TechCompanies(Take(companies, args.limit * CompaniesFactor),
                                       args.technologies, args.limit, 1, << >>)
          IN /\ calls' = Append(calls, Call("search_companies", TechSearchParams, ok))
             /\ IF ~ ok
                THEN /\ ret' = ErrorStr("Error finding companies using technologies: ")
                     /\ pc' = "done" /\ loc' = loc
                ELSE IF Len(results) < args.limit /\ Truthy(args.technologies)
                THEN /\ loc' = [results |-> results,
                                remaining |-> args.limit - Len(results), t |-> 1]
                     /\ pc' = "jobs" /\ ret' = ret
                ELSE /\ ret' = JsonStr(results)
                     /\ pc' = "done" /\ loc' = loc
    /\ UNCHANGED << tool, args, env >>

\* lines 1075-1078: the job search for one technology
TechSearchJobs ==
    /\ tool = "find_companies_using_technologies" /\ pc = "jobs"
    /\ \E ok \in BOOLEAN, jobs \in TechJobLists :
          /\ calls' = Append(calls, Call("search_jobs",
                          [keywords |-> args.technologies[loc.t],
                           limit |-> loc.remaining * JobsFactor], ok))
          /\ IF ~ ok
             THEN /\ ret' = ErrorStr("Error finding companies using technologies: ")
                  /\ pc' = "done" /\ loc' = loc
             ELSE IF jobs = << >>
             THEN TechNextTechnology(loc.results)
             ELSE /\ loc' = Merge(loc, [jobs |-> jobs, j |-> 1])
                  /\ pc' = "job" /\ ret' = ret
    /\ UNCHANGED << tool, args, env >>

\* lines 1081-1112: the guarded detail fetch of one job and its company
TechGetJob ==
    /\ tool = "find_companies_using_technologies" /\ pc = "job"
    /\ \E ok \in BOOLEAN, job_data \in JobDatas :
          LET company == JobCompany(job_data)
              known == \E i \in 1..Len(loc.results) : loc.results[i].id = company.id
              results == IF ok /\ ~ known
                         THEN Append(loc.results,
                                     TechJobResult(company, args.technologies[loc.t]))
                         ELSE loc.results
          IN /\ calls' = Append(calls, Call("get_job",
                             [job_id |-> SplitLast(Get(loc.jobs[loc.j], "entityUrn", << >>))],
                             ok))
             /\ IF loc.j < Len(loc.jobs) /\ Len(results) < args.limit
                THEN /\ loc' = [loc EXCEPT !.results = results, !.j = @ + 1]
                     /\ pc' = pc /\ ret' = ret
                ELSE TechNextTechnology(results)
    /\ UNCHANGED << tool, args, env >>

InitFindCompanies ==
    /\ tool = "find_companies_using_technologies"
    /\ \E req \in [technologies : {<< >>, << <<"a">> >>, << <<"a">>, <<"B">> >>},
                   limit : 1..MaxLimit],
          opt \in OptArgs({"industry", "location"}, {<<"b">>}) :
          args = Merge(req, opt)
    /\ env = EmptyDict
    /\ pc = "start" /\ loc = EmptyDict /\ calls = << >> /\ ret = NoRet

InitTech == InitGetCompanyUpdates \/ InitFindCompanies \/ InitFindDecisionMakers

NextTech ==
    \/ GetClient
    \/ GetCompanyUpdates
    \/ TechSearchCompanies
    \/ TechSearchJobs
    \/ TechGetJob
    \/ DecisionGetCompany
    \/ DecisionSearch

SpecTech == InitTech /\ [][NextTech]_vars

(***************************************************************************)
(* C11                                                                     *)
(***************************************************************************)
\* the remote search operations
SearchOps == {"search_jobs", "search_companies", "search_people"}

\* the parameters of a remote search that carry an optional str filter
FilterKeys ==
    {"location_name", "location", "industry", "title", "company_name",
     "school_name", "current_company", "regions"}

\* C11: every search-style tool sends upstream only the optional filters the
\* caller gave with a non-empty value: an optional input that is omitted or
\* empty never appears as a parameter of the remote search call.
C11_OnlyGivenFiltersSent ==
    \A i \in 1..Len(calls) :
        calls[i].op \in SearchOps =>
            \A k \in (DOMAIN calls[i].params) \cap FilterKeys :
                Truthy(calls[i].params[k])

(***************************************************************************)
(* C12                                                                     *)
(***************************************************************************)
\* the fields of the records that the code initialises to or sets to None
NullableFields == {"id", "timestamp"}

\* C12: every record in a tool's JSON output carries the same fixed set of
\* keys, and no field of it is null: a missing upstream field is rendered as
\* "", a placeholder or an empty list.
C12_FixedKeysNoNull ==
    (Done /\ ret.kind = "json") =>
        \A i \in 1..Len(ret.value) :
            /\ \A j \in 1..Len(ret.value) : DOMAIN ret.value[i] = DOMAIN ret.value[j]
            /\ \A k \in (DOMAIN ret.value[i]) \cap NullableFields :
                  ret.value[i][k] # None

(***************************************************************************)
(* C13                                                                     *)
(***************************************************************************)
\* C13: every invocation that returns yields one string that is either
\* indented JSON or a prefixed error string: no other kind of text is
\* returned on any path.
C13_JsonOrErrorString ==
    (Done /\ ret # Raised) => ret.kind \in {"json", "error"}

(***************************************************************************)
(* C14                                                                     *)
(***************************************************************************)
\* the remote calls of the job-posting fallback loop
FallbackCalls == CallsOf("search_jobs") \cup CallsOf("get_job")

\* C14: the loops issue a bounded number of remote calls: find_decision_makers
\* with the default titles at most 7 people searches, and
\* find_companies_using_technologies at most 2 x |technologies| remote calls
\* in its job-posting fallback loop, whatever the limit and the upstream
\* responses.
C14_BoundedLoopCalls ==
    /\ (tool = "find_decision_makers" /\ ~ Given("titles")) =>
          Cardinality(CallsOf("search_people")) <= 7
    /\ tool = "find_companies_using_technologies" =>
          Cardinality(FallbackCalls) <= 2 * Len(args.technologies)

HeadlineHits(headline, keywords) ==
    {k \in 1..Len(keywords) :
        Truthy(headline) /\ StrIn(Lower(keywords[k]), Lower(headline))}

\* C17: service_score is 2 for each service keyword found in the headline
\* plus 1 for each keyword first found in an experience description or a
\* skill name; a keyword already recorded in service_interests is not counted
\* again, so each keyword is recorded once and service_score never exceeds
\* 2 x the number of entries in service_keywords.
C17_ServiceScoreWeights ==
    Analyzed =>
        LET a == ret.value
            hits == Cardinality(HeadlineHits(a.headline, ServiceKeywords))
        IN /\ a.service_score =
                 HeadlineWeight * hits + OtherWeight * (Len(a.service_interests) - hits)
           /\ \A i, j \in 1..Len(a.service_interests) :
                 a.service_interests[i] = a.service_interests[j] => i = j
           /\ a.service_score <= 2 * Len(ServiceKeywords)

(***************************************************************************)
(* C18                                                                     *)
(***************************************************************************)
\* C18: in generate_lead_recommendations every recommendation's
\* decision_makers list has at most 2 entries, whatever the two people
\* searches of the company return.
C18_AtMostTwoDecisionMakers ==
    (tool = "generate_lead_recommendations" /\ Done /\ ret.kind = "json") =>
        \A i \in 1..Len(ret.value) : Len(ret.value[i].decision_makers) <= 2

(***************************************************************************)
(* find_recent_job_changes                                                 *)
(***************************************************************************)
\* if start_year >= 2024
RecentYear == 2024
\* limit=limit * 3
PeopleFactor == 3

\* lines 1208-1218: the parameters of the people search
ChangesSearchParams ==
    LET p1 == PutGiven(EmptyDict, "industry", "industry")
        p2 == PutGiven(p1, "location_name", "location")
        p3 == IF Given("title_keywords")
              THEN Put(p2, "title", args.title_keywords[1])
              ELSE p2
    IN Put(p3, "limit", args.limit * PeopleFactor)

\* lines 1254-1262: a keyword list was given and no keyword is in the title
TitleMismatch(current_title) ==
    /\ Given("title_keywords")
    /\ ~ \E k \in 1..Len(args.title_keywords) :
            StrIn(Lower(args.title_keywords[k]), Lower(current_title))

\* a test that takes a missing start date for a recent one
RecentStartOrNone(current_exp) ==
    LET current_start ==
            Get(Get(current_exp, "timePeriod", EmptyDict), "startDate", EmptyDict)
    IN Truthy(current_start) => Get(current_start, "year", 0) >= RecentYear

\* lines 1265-1273: the current entry has a start date and its year is recent
RecentStart(current_exp) ==
    LET current_start ==
            Get(Get(current_exp, "timePeriod", EmptyDict), "startDate", EmptyDict)
    IN Truthy(current_start) /\ Get(current_start, "year", 0) >= RecentYear

\* lines 1234-1273: the tests a fetched profile passes to be returned
IsJobChange(profile) ==
    LET experiences == Get(profile, "experience", << >>)
    IN /\ Len(experiences) >= 2
       /\ Lower(Get(experiences[1], "companyName", << >>))
             # Lower(Get(experiences[2], "companyName", << >>))
       /\ ~ TitleMismatch(Get(experiences[1], "title", << >>))
       /\ RecentStart(experiences[1])

\* lines 1275-1286
ChangeResult(profile_id, profile) ==
    [id |-> profile_id,
     name |-> FullName(profile),
     current_title |-> Get(profile.experience[1], "title", << >>),
     current_company |-> Get(profile.experience[1], "companyName", << >>),
     previous_company |-> Get(profile.experience[2], "companyName", << >>),
     location |-> Get(profile, "locationName", << >>),
     url |-> ProfileUrl(profile_id)]

StartIn(year) == [startDate |-> [year |-> year, month |-> 1]]

CTO == << "C", "T", "O" >>

\* the current entry of a changed job without a start date
NoStartEntry == [companyName |-> <<"a">>, title |-> CTO]

\* profiles that client.get_profile returns
ChangeProfiles ==
    { [firstName |-> <<"a">>],
      [firstName |-> <<"a">>, locationName |-> <<"c">>,
       experience |-> << [companyName |-> <<"a">>, title |-> CTO,
                          timePeriod |-> StartIn(2024)],
                         [companyName |-> <<"b">>] >>],
      [experience |-> << [companyName |-> <<"a">>, title |-> CTO,
                          timePeriod |-> StartIn(2025)],
                         [companyName |-> <<"A">>] >>],
      [experience |-> << [companyName |-> <<"a">>, title |-> CTO,
                          timePeriod |-> StartIn(2023)],
                         [companyName |-> <<"b">>] >>],
      [experience |-> << NoStartEntry, [companyName |-> <<"b">>] >>],
      [experience |-> << [companyName |-> <<"a">>, title |-> CTO,
                          timePeriod |-> [startDate |-> [month |-> 5]]],
                         [title |-> <<"b">>] >>],
      [experience |-> << [companyName |-> <<"a">>, title |-> <<"V", "P">>,
                          timePeriod |-> StartIn(2024)],
                         [companyName |-> <<"b">>],
                         [companyName |-> <<"a">>] >>] }

\* lists of people that client.search_people returns
ChangePeopleLists ==
    { << >>,
      << [public_id |-> <<"p">>] >>,
      << [public_id |-> <<"p">>], [public_id |-> <<"q">>] >>,
      << [public_id |-> <<"q">>], [public_id |-> <<"p">>], [public_id |-> <<"p">>] >> }

\* lines 1221-1227: the people search
ChangesSearch ==
    /\ tool = "find_recent_job_changes" /\ pc = "body"
    /\ \E ok \in BOOLEAN, people \in ChangePeopleLists :
          /\ calls' = Append(calls, Call("search_people", ChangesSearchParams, ok))
          /\ IF ~ ok
             THEN /\ ret' = ErrorStr("Error finding recent job changes: ")
                  /\ pc' = "done" /\ loc' = loc
             ELSE IF people = << >>
             THEN /\ ret' = JsonStr(<< >>)
                  /\ pc' = "done" /\ loc' = loc
             ELSE /\ loc' = [people |-> people, i |-> 1, recent_changes |-> << >>]
                  /\ pc' = "profile" /\ ret' = ret
    /\ UNCHANGED << tool, args, env >>

\* lines 1228-1296: the guarded profile fetch of one person and its tests
ChangesGetProfile ==
    /\ tool = "find_recent_job_changes" /\ pc = "profile"
    /\ \E ok \in BOOLEAN :
          LET profile_id == Get(loc.people[loc.i], "public_id", << >>)
              profile == env.profiles[profile_id]
              recent_changes ==
                  IF ok /\ IsJobChange(profile)
                  THEN Append(loc.recent_changes, ChangeResult(profile_id, profile))
                  ELSE loc.recent_changes
          IN /\ calls' = Append(calls, Call("get_profile",
                             [public_id |-> profile_id], ok))
             /\ IF loc.i < Len(loc.people) /\ Len(recent_changes) < args.limit
                THEN /\ loc' = [loc EXCEPT !.recent_changes = recent_changes, !.i = @ + 1]
                     /\ pc' = pc /\ ret' = ret
                ELSE /\ loc' = [loc EXCEPT !.recent_changes = recent_changes]
                     /\ pc' = "done" /\ ret' = JsonStr(recent_changes)
    /\ UNCHANGED << tool, args, env >>

InitFindRecentJobChanges ==
    /\ tool = "find_recent_job_changes"
    /\ \E req \in [limit : 1..MaxLimit],
          opt \in OptArgs({"location"}, {<<"b">>}),
          kw \in {EmptyDict} \cup
                 {[title_keywords |-> t] :
                     t \in {<< >>, << <<"c", "t", "o">> >>, << <<"b">>, <<"V", "p">> >>}} :
          args = Merge(Merge(req, opt), kw)
    /\ env \in [profiles : [{<<"p">>, <<"q">>} -> ChangeProfiles]]
    /\ pc = "start" /\ loc = EmptyDict /\ calls = << >> /\ ret = NoRet

(***************************************************************************)
(* search_company_employees                                                *)
(***************************************************************************)
\* a record that names the person's own company
EmployeeResultOwnCompany(person, company_name) ==
    [id |-> Get(person, "public_id", << >>),
     name |-> FullName(person),
     title |-> Get(person, "occupation", << >>),
     company |-> Get(person, "companyName", << >>),
     location |-> Get(person, "locationName", << >>),
     url |-> ProfileUrl(Get(person, "public_id", << >>))]

\* lines 349-362
EmployeeResult(person, company_name) ==
    [id |-> Get(person, "public_id", << >>),
     name |-> FullName(person),
     title |-> Get(person, "occupation", << >>),
     company |-> company_name,
     location |-> Get(person, "locationName", << >>),
     url |-> ProfileUrl(Get(person, "public_id", << >>))]

\* lines 347-362
EmployeeResults(employees, company_name) ==
    [i \in 1..Len(employees) |-> EmployeeResult(employees[i], company_name)]

\* lines 325-329: the company's name, needed before the search
EmployeesGetCompany ==
    /\ tool = "search_company_employees" /\ pc = "body"
    /\ \E ok \in BOOLEAN :
          LET company_name == Get(env.company, "name", << >>) IN
          /\ calls' = Append(calls, Call("get_company",
                          [public_id |-> args.company_id], ok))
          /\ IF ~ ok
             THEN /\ ret' = ErrorStr("Error searching company employees: ")
                  /\ pc' = "done" /\ loc' = loc
             ELSE IF ~ Truthy(company_name)
             THEN /\ ret' = ErrorStr("Error: Could not find company name")
                  /\ pc' = "done" /\ loc' = loc
             ELSE /\ loc' = [company_name |-> company_name]
                  /\ pc' = "search" /\ ret' = ret
    /\ UNCHANGED << tool, args, env >>

\* lines 332-364: the people search and the records
EmployeesSearch ==
    /\ tool = "search_company_employees" /\ pc = "search"
    /\ \E ok \in BOOLEAN, employees \in TitleHits :
          /\ calls' = Append(calls, Call("search_people",
                          Put(PutGiven([company_name |-> loc.company_name],
                                       "title", "title"),
                              "limit", args.limit), ok))
          /\ ret' = IF ok THEN JsonStr(EmployeeResults(employees, loc.company_name))
                    ELSE ErrorStr("Error searching company employees: ")
    /\ pc' = "done"
    /\ UNCHANGED << tool, args, env, loc >>

InitSearchCompanyEmployees ==
    /\ tool = "search_company_employees"
    /\ \E req \in [company_id : {<<"1">>}, limit : 1..MaxLimit],
          opt \in OptArgs({"title"}, {CTO}) :
          args = Merge(req, opt)
    /\ env \in [company : DecisionCompanies]
    /\ pc = "start" /\ loc = EmptyDict /\ calls = << >> /\ ret = NoRet

InitStaff ==
    InitFindRecentJobChanges \/ InitSearchCompanyEmployees \/ InitFindDecisionMakers

NextStaff ==
    \/ GetClient
    \/ ChangesSearch
    \/ ChangesGetProfile
    \/ EmployeesGetCompany
    \/ EmployeesSearch
    \/ DecisionGetCompany
    \/ DecisionSearch

SpecStaff == InitStaff /\ [][NextStaff]_vars

(***************************************************************************)
(* C19                                                                     *)
(***************************************************************************)
\* the profile fetched for a returned person
FetchedProfile(record) == env.profiles[record.id]

\* C19: find_recent_job_changes returns a person only if the fetched profile
\* has at least 2 experience entries, the company names of the two most recent
\* entries differ case-insensitively, the current title contains one of the
\* title_keywords when they are given, and the current entry has a start date
\* whose year is >= 2024; a candidate without a start date is never returned.
C19_OnlyRecentJobChanges ==
    (tool = "find_recent_job_changes" /\ Done /\ ret.kind = "json") =>
        \A i \in 1..Len(ret.value) :
            LET experiences == Get(FetchedProfile(ret.value[i]), "experience", << >>)
            IN /\ Len(experiences) >= 2
               /\ Lower(Get(experiences[1], "companyName", << >>))
                     # Lower(Get(experiences[2], "companyName", << >>))
               /\ Given("title_keywords") =>
                     \E k \in 1..Len(args.title_keywords) :
                         StrIn(Lower(args.title_keywords[k]),
                               Lower(Get(experiences[1], "title", << >>)))
               /\ "timePeriod" \in DOMAIN experiences[1]
               /\ "startDate" \in DOMAIN experiences[1].timePeriod
               /\ "year" \in DOMAIN experiences[1].timePeriod.startDate
               /\ experiences[1].timePeriod.startDate.year >= 2024

\* the tool returned a job change and left out a fetched candidate whose
\* current entry has no start date
C19_Witness ==
    /\ tool = "find_recent_job_changes" /\ Done /\ ret.kind = "json"
    /\ Given("title_keywords")
    /\ Len(ret.value) = 1
    /\ \E i \in CallsOf("get_profile") :
          /\ calls[i].ok
          /\ Get(env.profiles[calls[i].params.public_id], "experience", << >>)
                # << >>
          /\ env.profiles[calls[i].params.public_id].experience[1] = NoStartEntry

(***************************************************************************)
(* C20                                                                     *)
(***************************************************************************)
\* the name of the company that get_company returns
FetchedName == Get(env.company, "name", << >>)

\* C20: in search_company_employees and find_decision_makers the company is
\* fetched first; when the fetched company has no name (missing or empty) the
\* tool returns exactly "Error: Could not find company name" and issues no
\* people search; otherwise every returned record's company field is the
\* fetched company name.
C20_CompanyNameFirst ==
    tool \in {"search_company_employees", "find_decision_makers"} =>
        /\ Len(calls) >= 2 => calls[2].op = "get_company"
        /\ \A i \in CallsOf("search_people") :
              i > 2 /\ calls[2].ok /\ Truthy(FetchedName)
        /\ (Done /\ Len(calls) >= 2 /\ calls[2].ok /\ ~ Truthy(FetchedName)) =>
              ret = ErrorStr("Error: Could not find company name")
        /\ (Done /\ ret.kind = "json") =>
              \A i \in 1..Len(ret.value) : ret.value[i].company = FetchedName

\* search_company_employees fetched a company whose name is empty
C20_Witness ==
    /\ tool = "search_company_employees" /\ Done
    /\ Len(calls) = 2 /\ calls[2].ok
    /\ env.company = [name |-> << >>]
    /\ ret = ErrorStr("Error: Could not find company name")

(***************************************************************************)
(* C21                                                                     *)
(***************************************************************************)
\* the position in the call log of the updates fetch for the k-th company
UpdatesCall(k) ==
    CHOOSE p \in CallsOf("get_company_updates") :
        Cardinality({q \in CallsOf("get_company_updates") : q <= p}) = k

\* an update fetched for the k-th company mentions one of the technologies
UpdateMentions(k) ==
    \E u \in 1..Len(env.updates[k]), t \in 1..Len(args.technologies) :
        StrIn(Lower(args.technologies[t]), Lower(UpdateText(env.updates[k][u])))

\* the job search of the k-th company, when one was issued, is the call that
\* follows its updates fetch
JobsCalled(k) ==
    /\ UpdatesCall(k) < Len(calls)
    /\ calls[UpdatesCall(k) + 1].op = "search_jobs"

\* the fit check of the k-th company raised
FitCheckRaised(k) ==
    \/ ~ calls[UpdatesCall(k)].ok
    \/ JobsCalled(k) /\ ~ calls[UpdatesCall(k) + 1].ok

\* C21: technology_fit of each recommendation is "Unknown" if no technologies
\* were given or the fit check raised, a "High - ..." label if a fetched update
\* of the company mentions a technology (case-insensitively), otherwise
\* "Medium - ..." if the job search returns a job and "Low - ..." if it returns
\* none; the job search is issued only after the updates fetch, and only when
\* no update mentioned a technology.
C21_TechnologyFit ==
    tool = "generate_lead_recommendations" =>
        /\ \A j \in CallsOf("search_jobs") :
              \E k \in 1..Cardinality(CallsOf("get_company_updates")) :
                  /\ UpdatesCall(k) = j - 1
                  /\ calls[j - 1].ok
                  /\ ~ UpdateMentions(k)
        /\ (Done /\ ret.kind = "json") =>
              \A k \in 1..Len(ret.value) :
                  LET fit == ret.value[k].technology_fit
                  IN IF ~ Given("technologies") THEN fit = Unknown
                     ELSE IF FitCheckRaised(k) THEN fit = Unknown
                     ELSE IF UpdateMentions(k)
                     THEN fit[1] = "High - Mentioned in company updates: "
                     ELSE IF Truthy(env.jobs[k]) THEN fit = MediumFit
                     ELSE fit = LowFit

\* two recommendations, the first "High" by a mention written in another case,
\* the second "Low" after a job search that returned nothing
C21_Witness ==
    /\ tool = "generate_lead_recommendations" /\ Done /\ ret.kind = "json"
    /\ Len(ret.value) = 2
    /\ ret.value[1].technology_fit[1] = "High - Mentioned in company updates: "
    /\ ret.value[2].technology_fit = LowFit
    /\ CallsOf("search_jobs") # {}

(***************************************************************************)
(* C22                                                                     *)
(***************************************************************************)
\* the step issues a remote call of the job-posting fallback
FallbackStep ==
    /\ tool = "find_companies_using_technologies"
    /\ pc \in {"jobs", "job"}
    /\ Len(calls') = Len(calls) + 1

\* the step adds a record to the result list in the fallback
FallbackAdds ==
    /\ FallbackStep
    /\ Len(loc'.results) = Len(loc.results) + 1

\* C22: in find_companies_using_technologies the job-posting fallback runs
\* only when the description-match phase gave fewer than limit records; every
\* record it adds carries source "Job Posting" and a company id that no
\* earlier record of the result list has; and no job search or detail fetch is
\* issued once the result list holds limit records.
C22_FallbackBelowLimit ==
    [][/\ FallbackStep =>
            /\ calls'[Len(calls')].op \in {"search_jobs", "get_job"}
            /\ Len(loc.results) < args.limit
       /\ FallbackAdds =>
            LET added == loc'.results[Len(loc'.results)]
            IN /\ "source" \in DOMAIN added
               /\ added.source = << "Job Posting" >>
               /\ \A i \in 1..Len(loc.results) :
                     /\ loc'.results[i] = loc.results[i]
                     /\ loc.results[i].id # added.id]_vars

\* the fallback added the record that filled the list and the second
\* technology was not searched
C22_Witness ==
    /\ tool = "find_companies_using_technologies" /\ Done /\ ret.kind = "json"
    /\ Len(args.technologies) = 2
    /\ Len(ret.value) = args.limit
    /\ "source" \in DOMAIN ret.value[Len(ret.value)]
    /\ Cardinality(CallsOf("search_jobs")) = 1

(***************************************************************************)
(* C23                                                                     *)
(***************************************************************************)
\* search_people_by_skills returned its records
BySkillsReturned == tool = "search_people_by_skills" /\ Done /\ ret.kind = "json"

\* the skill name contains one of the requested skills, whatever the case
ContainsRequested(skill_name) ==
    \E k \in 1..Len(args.skills) : StrIn(Lower(args.skills[k]), Lower(skill_name))

\* C23: search_people_by_skills returns only people whose fetched skill list
\* has, for every requested skill, a skill name that contains it
\* case-insensitively; the matched_skills of a record are exactly the fetched
\* skill names that contain a requested skill; with no requested skill every
\* search hit passes the filter.
C23_AllSkillsMatched ==
    BySkillsReturned =>
        /\ Len(loc.profile_skills) >= Len(ret.value)
        /\ Len(loc.person_skills) = Len(ret.value)
        /\ \A j \in 1..Len(ret.value) :
              /\ \A k \in 1..Len(args.skills) :
                    \E i \in 1..Len(loc.profile_skills[j]) :
                        /\ "name" \in DOMAIN loc.profile_skills[j][i]
                        /\ StrIn(Lower(args.skills[k]),
                                 Lower(loc.profile_skills[j][i].name))
              /\ ret.value[j].matched_skills =
                    SelectSeq([i \in 1..Len(loc.person_skills[j]) |->
                                  Get(loc.person_skills[j][i], "name", << >>)],
                              ContainsRequested)
        /\ args.skills = << >> =>
              /\ Len(ret.value) = Min(Len(env.people), args.limit)
              /\ \A j \in 1..Len(ret.value) :
                    ret.value[j].id = Get(env.people[j], "public_id", << >>)

\* two requested skills, and a returned person whose fetched skill names
\* contain both
C23_Witness ==
    /\ BySkillsReturned
    /\ Len(args.skills) = 2
    /\ Len(ret.value) >= 1
    /\ ret.value[1].matched_skills # << >>

(***************************************************************************)
(* C24                                                                     *)
(***************************************************************************)
\* the call of `op` in the log raised
CallFailed(op) == \E i \in CallsOf(op) : ~ calls[i].ok

\* generate_sales_outreach_context fetched the profile and the skills
OutreachFetched ==
    /\ tool = "generate_sales_outreach_context" /\ Done
    /\ Len(calls) >= 3 /\ calls[2].ok /\ calls[3].ok

\* the positions of the experience entries whose time period has no end date
OpenEntries(profile) ==
    {i \in 1..Len(Get(profile, "experience", << >>)) :
        "endDate" \notin DOMAIN Get(profile.experience[i], "timePeriod", EmptyDict)}

\* C24: in generate_sales_outreach_context a failure of the posts fetch or of
\* the company search does not make the result an error string: the JSON
\* context is returned, with recent_activity empty after a posts failure and
\* company_details empty after a company-search failure; the company search
\* is issued only when a current company was found; experience_summary has at
\* most 3 entries and top_skills at most 5.
C24_GuardedOutreachSteps ==
    tool = "generate_sales_outreach_context" =>
        /\ OutreachFetched =>
              /\ ret.kind = "json"
              /\ CallFailed("get_profile_posts") => ret.value.recent_activity = << >>
              /\ CallFailed("search_companies") => ret.value.company_details = EmptyDict
              /\ Len(ret.value.experience_summary) <= 3
              /\ Len(ret.value.top_skills) <= 5
        /\ CallsOf("search_companies") # {} =>
              \E i \in OpenEntries(env.profile) :
                  /\ \A j \in OpenEntries(env.profile) : j <= i
                  /\ Truthy(Get(env.profile.experience[i], "companyName", << >>))

\* both guarded fetches failed for a profile with 4 experience entries and 6
\* skills, and the context was returned
C24_Witness ==
    /\ OutreachFetched
    /\ CallFailed("get_profile_posts") /\ CallFailed("search_companies")
    /\ ret.kind = "json"
    /\ Len(env.profile.experience) = 4 /\ Len(ret.value.experience_summary) = 3
    /\ Len(env.skills) = 6 /\ Len(ret.value.top_skills) = 5

(***************************************************************************)
(* identify_target_accounts                                                *)
(***************************************************************************)
\* [:200] and len(...) > 200
DescriptionChars == 200
\* limit=limit * 3
TargetsFactor == 3
\* titles[:2]
TargetTitlesSearched == 2
\* limit=1
TargetPeoplePerTitle == 1

Ellipsis == << ".", ".", "." >>

\* titles = ["CTO", "CIO", "IT Director", "VP of Technology"]
TargetTitles == Take(LeadTitles, 4)

\* a filter without the test of max_size
TargetMatchesNoMax(company) ==
    LET staff_count == Get(company, "staffCount", 0)
        description == Lower(Get(company, "description", << >>))
    IN /\ "min_size" \in DOMAIN args => staff_count >= args.min_size
       /\ Given("keywords") =>
             \E k \in 1..Len(args.keywords) : StrIn(Lower(args.keywords[k]), description)

\* lines 757-782: the size tests and the keyword test of one company
TargetMatches(company) ==
    LET staff_count == Get(company, "staffCount", 0)
        description == Lower(Get(company, "description", << >>))
    IN /\ ~ ("min_size" \in DOMAIN args /\ staff_count < args.min_size)
       /\ ~ ("max_size" \in DOMAIN args /\ staff_count > args.max_size)
       /\ Given("keywords") =>
             \E k \in 1..Len(args.keywords) : StrIn(Lower(args.keywords[k]), description)

\* lines 755-789 and filtered_companies[:limit]: the first limit companies, in
\* upstream order, that pass the tests
TargetFiltered(companies) == Take(SelectSeq(companies, TargetMatches), args.limit)

\* line 795
TargetDescription(company) ==
    IF Truthy(Get(company, "description", << >>))
       /\ Len(company.description) > DescriptionChars
    THEN Take(company.description, DescriptionChars) \o Ellipsis
    ELSE Get(company, "description", NoDescription)

\* technologies looked for in the description upstream sent
TargetTechMentionsFull(company) ==
    LET Mentioned(tech) == StrIn(Lower(tech), Lower(Get(company, "description", << >>)))
    IN IF Given("technology_interests") /\ Truthy(TargetDescription(company))
       THEN SelectSeq(args.technology_interests, Mentioned)
       ELSE << >>

\* lines 798-805: the technologies the output description mentions
TargetTechMentions(company) ==
    LET Mentioned(tech) == StrIn(Lower(tech), Lower(TargetDescription(company)))
    IN IF Given("technology_interests") /\ Truthy(TargetDescription(company))
       THEN SelectSeq(args.technology_interests, Mentioned)
       ELSE << >>

\* lines 842-853
TargetResult(company, decision_makers) ==
    [company_id |-> CompanyId(company),
     company_name |-> Get(company, "name", Unknown),
     industry |-> CompanyIndustry(company),
     location |-> CompanyLocation(company),
     size |-> Get(company, "staffCount", Unknown),
     description |-> TargetDescription(company),
     tech_score |-> Len(TargetTechMentions(company)),
     tech_mentions |-> TargetTechMentions(company),
     decision_makers |-> decision_makers,
     company_url |-> CompanyUrl(CompanyId(company))]

\* lines 827-836: every person of one search is appended
TargetPeople(people) == [i \in 1..Len(people) |-> LeadPerson(people[i])]

LongDescription == [i \in 1..DescriptionChars |-> "x"] \o << "a", "b" >>

FullDescription == [i \in 1..(DescriptionChars - 1) |-> "x"] \o << "B" >>

\* companies that client.search_companies returns: a small one, a large one
\* with a long description, one with a description of exactly 200 characters,
\* and one without staff count and description
TargetSmall ==
    [entityUrn |-> <<"u", ":", "1">>, name |-> <<"a">>, staffCount |-> 10,
     description |-> <<"A", " ", "b">>]

TargetLarge == [name |-> <<"b">>, staffCount |-> 1000, description |-> LongDescription]

TargetMiddle ==
    [entityUrn |-> <<"u", ":", "3">>, name |-> <<"d">>, staffCount |-> 50,
     description |-> FullDescription]

TargetBare == [name |-> <<"c">>]

\* lists of companies that client.search_companies returns
TargetCompanyLists ==
    { << >>,
      << TargetSmall, TargetLarge, TargetMiddle, TargetBare >>,
      << TargetLarge, TargetBare, TargetSmall >>,
      << TargetBare, TargetMiddle >>,
      << TargetMiddle, TargetLarge >> }

\* lists of people that one people search returns
TargetHits ==
    { << >>,
      << [public_id |-> <<"p">>, firstName |-> <<"a">>, occupation |-> <<"C", "T", "O">>] >> }

\* lines 741-789: the company search and the local filters
TargetsSearchCompanies ==
    /\ tool = "identify_target_accounts" /\ pc = "body"
    /\ \E ok \in BOOLEAN :
          LET search_params == PutGiven([keywords |-> args.industry], "location", "location")
              filtered_companies == TargetFiltered(env.companies)
          IN /\ calls' = Append(calls, Call("search_companies",
                             Put(search_params, "limit", args.limit * TargetsFactor), ok))
             /\ IF ~ ok
                THEN /\ ret' = ErrorStr("Error identifying target accounts: ")
                     /\ pc' = "done" /\ loc' = loc
                ELSE IF filtered_companies = << >>
                THEN /\ ret' = JsonStr(<< >>)
                     /\ pc' = "done" /\ loc' = loc
                ELSE /\ loc' = [companies |-> filtered_companies, i |-> 1, t |-> 1,
                                decision_makers |-> << >>, results |-> << >>]
                     /\ pc' = "people" /\ ret' = ret
    /\ UNCHANGED << tool, args, env >>

\* lines 807-853: the guarded people search for one of the two titles; after
\* the last title, or a failure, the company's record is appended
TargetsSearchPeople ==
    /\ tool = "identify_target_accounts" /\ pc = "people"
    /\ \E ok \in BOOLEAN, people \in TargetHits :
          LET company == loc.companies[loc.i]
              decision_makers == IF ok THEN loc.decision_makers \o TargetPeople(people)
                                 ELSE loc.decision_makers
              results == Append(loc.results, TargetResult(company, decision_makers))
          IN /\ calls' = Append(calls, Call("search_people",
                             [company_name |-> Get(company, "name", Unknown),
                              title |-> TargetTitles[loc.t],
                              limit |-> TargetPeoplePerTitle], ok))
             /\ IF ok /\ loc.t < TargetTitlesSearched
                THEN /\ loc' = [loc EXCEPT !.decision_makers = decision_makers,
                                           !.t = @ + 1]
                     /\ pc' = pc /\ ret' = ret
                ELSE IF loc.i < Len(loc.companies)
                THEN /\ loc' = [loc EXCEPT !.i = @ + 1, !.t = 1,
                                           !.decision_makers = << >>,
                                           !.results = results]
                     /\ pc' = pc /\ ret' = ret
                ELSE /\ loc' = [loc EXCEPT !.decision_makers = decision_makers,
                                           !.results = results]
                     /\ pc' = "done" /\ ret' = JsonStr(results)
    /\ UNCHANGED << tool, args, env >>

InitIdentifyTargetAccounts ==
    /\ tool = "identify_target_accounts"
    /\ \E req \in [industry : {<<"a">>}, limit : 1..MaxLimit],
          min \in {EmptyDict, [min_size |-> 20]},
          max \in {EmptyDict, [max_size |-> 100]},
          kw \in {EmptyDict, [keywords |-> << <<"a">> >>],
                  [keywords |-> << <<"q">>, <<"b">> >>]},
          tech \in {EmptyDict, [technology_interests |-> << <<"a">>, <<"B">> >>]} :
          args = Merge(Merge(req, Merge(min, max)), Merge(kw, tech))
    /\ env \in [companies : TargetCompanyLists]
    /\ pc = "start" /\ loc = EmptyDict /\ calls = << >> /\ ret = NoRet

InitTargets == InitIdentifyTargetAccounts

NextTargets ==
    \/ GetClient
    \/ TargetsSearchCompanies
    \/ TargetsSearchPeople

SpecTargets == InitTargets /\ [][NextTargets]_vars

(***************************************************************************)
(* C25                                                                     *)
(***************************************************************************)
\* identify_target_accounts returned its accounts
TargetsReturned == tool = "identify_target_accounts" /\ Done /\ ret.kind = "json"

\* the company passes the caller's size bounds and keyword filter
PassesFilters(company) ==
    LET staff == IF "staffCount" \in DOMAIN company THEN company.staffCount ELSE 0
        full == IF "description" \in DOMAIN company THEN company.description ELSE << >>
    IN /\ "min_size" \in DOMAIN args => staff >= args.min_size
       /\ "max_size" \in DOMAIN args => staff <= args.max_size
       /\ Given("keywords") =>
             \E k \in 1..Len(args.keywords) : StrIn(Lower(args.keywords[k]), Lower(full))

\* the positions of the upstream companies that pass the filters
Passing == {i \in 1..Len(env.companies) : PassesFilters(env.companies[i])}

\* the k-th passing company, in upstream order
PassingCompany(k) ==
    env.companies[CHOOSE i \in Passing : Cardinality({j \in Passing : j <= i}) = k]

\* C25: every account identify_target_accounts returns passes the local
\* filters: its staff count (0 when missing) is >= min_size and <= max_size
\* when these are given, and its full description contains one of the keywords
\* case-insensitively when keywords is not empty; the accounts are the first
\* limit passing companies, in upstream order.
C25_AccountsPassFilters ==
    TargetsReturned =>
        /\ Len(ret.value) = Min(Cardinality(Passing), args.limit)
        /\ \A k \in 1..Len(ret.value) :
              ret.value[k].company_name = Get(PassingCompany(k), "name", Unknown)

\* both size bounds and keywords given, four upstream companies, one returned
C25_Witness ==
    /\ TargetsReturned
    /\ {"min_size", "max_size", "keywords"} \subseteq DOMAIN args
    /\ Len(env.companies) = 4
    /\ Len(ret.value) = 1
    /\ ret.value[1].size = 50

(***************************************************************************)
(* C26                                                                     *)
(***************************************************************************)
\* C26: in identify_target_accounts the output description is the upstream
\* description when it has at most 200 characters and otherwise its first 200
\* characters followed by "...", never longer than 203 characters; tech_score
\* is the length of tech_mentions, and tech_mentions are the technologies the
\* output description contains, not those of the full upstream description.
C26_DescriptionAndTechScore ==
    TargetsReturned =>
        \A k \in 1..Len(ret.value) :
            LET r == ret.value[k]
                company == PassingCompany(k)
                InOutput(tech) == StrIn(Lower(tech), Lower(r.description))
            IN /\ Len(r.description) <= 203
               /\ IF "description" \notin DOMAIN company
                  THEN r.description = NoDescription
                  ELSE IF Len(company.description) <= 200
                  THEN r.description = company.description
                  ELSE r.description =
                          SubSeq(company.description, 1, 200) \o << ".", ".", "." >>
               /\ r.tech_score = Len(r.tech_mentions)
               /\ r.tech_mentions =
                     IF Given("technology_interests")
                     THEN SelectSeq(args.technology_interests, InOutput)
                     ELSE << >>

\* a returned account whose description was cut to 203 characters, the cut
\* part naming a technology that tech_mentions does not list
C26_Witness ==
    /\ TargetsReturned
    /\ Given("technology_interests")
    /\ \E k \in 1..Len(ret.value) :
          /\ Len(ret.value[k].description) = 203
          /\ PassingCompany(k).description[201] = "a"
          /\ ret.value[k].tech_score = 0

(***************************************************************************)
(* C27                                                                     *)
(***************************************************************************)
\* C27: in analyze_prospect_profile opportunity_score is a multiple of 5 in
\* 0..80; a prospect whose is_decision_maker is false has a score of at most
\* 50 and never the level "High"; "High" requires is_decision_maker and
\* service_score >= 8.
C27_ScoreRangeAndHigh ==
    Analyzed =>
        LET a == ret.value IN
        /\ a.opportunity_score \in {5 * n : n \in 0..16}
        /\ ~ a.is_decision_maker =>
              a.opportunity_score <= 50 /\ a.opportunity_level # "High"
        /\ a.opportunity_level = "High" =>
              a.is_decision_maker /\ a.service_score >= 8

\* a prospect who is no decision maker, with more service hits than the cap
\* counts, held at 50 points and "Medium"
C27_Witness ==
    /\ Analyzed
    /\ ~ ret.value.is_decision_maker
    /\ ret.value.service_score > 10
    /\ ret.value.opportunity_score = 50
    /\ ret.value.opportunity_level = "Medium"

(***************************************************************************)
(* C28                                                                     *)
(***************************************************************************)
\* the title and company of the last experience entry with no end date, both
\* empty without such an entry
LastOpen(profile) ==
    LET open == OpenEntries(profile)
        last == CHOOSE i \in open : \A j \in open : j <= i
    IN IF open = {}
       THEN [title |-> << >>, company |-> << >>]
       ELSE [title |-> IF "title" \in DOMAIN profile.experience[last]
                       THEN profile.experience[last].title ELSE << >>,
             company |-> IF "companyName" \in DOMAIN profile.experience[last]
                         THEN profile.experience[last].companyName ELSE << >>]

\* the seniority keywords of the decision-maker test
SeniorityKeywords ==
    { << "c", "t", "o" >>, << "c", "i", "o" >>, << "v", "p" >>,
      << "d", "i", "r", "e", "c", "t", "o", "r" >>, << "c", "h", "i", "e", "f" >>,
      << "h", "e", "a", "d" >>, << "l", "e", "a", "d" >>,
      << "s", "e", "n", "i", "o", "r" >>, << "m", "a", "n", "a", "g", "e", "r" >> }

\* generate_sales_outreach_context returned its context
OutreachReturned ==
    tool = "generate_sales_outreach_context" /\ Done /\ ret.kind = "json"

\* C28: in analyze_prospect_profile and generate_sales_outreach_context the
\* current title and company are those of the last experience entry, in
\* upstream order, whose time period has no end date, and are empty when no
\* entry is open-ended; is_decision_maker is true exactly when that title
\* contains, case-insensitively, one of the fixed seniority keywords.
C28_CurrentJobIsLastOpenEntry ==
    /\ Analyzed =>
          /\ ret.value.current_title = LastOpen(loc.profile).title
          /\ ret.value.current_company = LastOpen(loc.profile).company
          /\ ret.value.is_decision_maker <=>
                \E kw \in SeniorityKeywords :
                    StrIn(kw, Lower(LastOpen(loc.profile).title))
    /\ OutreachReturned =>
          /\ ret.value.prospect.title = LastOpen(loc.profile).title
          /\ ret.value.prospect.company = LastOpen(loc.profile).company

\* two open-ended entries: the later one, with no seniority keyword in its
\* title, replaced the earlier "CTO" entry
C28_Witness ==
    /\ Analyzed
    /\ Cardinality(OpenEntries(loc.profile)) = 2
    /\ loc.profile.experience[1].title = << "C", "T", "O" >>
    /\ ret.value.current_title = << "d", "e", "v" >>
    /\ ret.value.current_company = << >>
    /\ ~ ret.value.is_decision_maker

(***************************************************************************)
(* C29                                                                     *)
(***************************************************************************)
\* the title list find_decision_makers is to search: the caller's titles, or
\* the seven default titles when the argument is missing or empty
TitlesToSearch ==
    IF "titles" \in DOMAIN args /\ Len(args.titles) > 0
    THEN args.titles
    ELSE << << "C", "E", "O" >>, << "C", "T", "O" >>, << "C", "I", "O" >>,
            << "D", "i", "r", "e", "c", "t", "o", "r" >>, << "V", "P" >>,
            << "H", "e", "a", "d" >>, << "M", "a", "n", "a", "g", "e", "r" >> >>

\* the per-title people searches issued so far, in order
TitleSearches ==
    LET IsSearch(c) == c.op = "search_people"
    IN SelectSeq(calls, IsSearch)

\* C29: in find_decision_makers the title list is never empty when the
\* per-title limit is computed, a missing or empty titles argument being
\* replaced by the 7 default titles, so limit // len(titles) never divides by
\* zero; every per-title people search asks for limit // len(titles) + 1
\* people with the next title of that list.
C29_PerTitleCeiling ==
    tool = "find_decision_makers" =>
        /\ Len(TitlesToSearch) > 0
        /\ ~ Given("titles") => Len(TitlesToSearch) = 7
        /\ Len(TitleSearches) <= Len(TitlesToSearch)
        /\ \A k \in 1..Len(TitleSearches) :
              /\ TitleSearches[k].params.title = TitlesToSearch[k]
              /\ TitleSearches[k].params.limit =
                    (args.limit \div Len(TitlesToSearch)) + 1

\* an empty titles argument: the searches ran over the default titles, each
\* asking for limit // 7 + 1 people
C29_Witness ==
    /\ tool = "find_decision_makers" /\ Done /\ ret.kind = "json"
    /\ "titles" \in DOMAIN args /\ args.titles = << >>
    /\ Len(TitleSearches) >= 2
    /\ TitleSearches[2].params.title = << "C", "T", "O" >>
    /\ TitleSearches[2].params.limit = (args.limit \div 7) + 1

====
